---- MODULE Spec2Model ----
(***************************************************************************)
(* The playback engine of MPD: the PlayerControl command handshake between *)
(* a client thread and the player thread (src/src/player/Control.cxx),     *)
(* and the per-output AudioOutputSource that drains the music pipe         *)
(* (src/src/output/Source.cxx).                                            *)
(***************************************************************************)
EXTENDS Integers, FiniteSets, Sequences, TLC

(***************************************************************************)
(* Bounds of the model.                                                    *)
(***************************************************************************)
\* largest seek position (SongTime) the client passes to LockSeek
MaxTime == 1

Times == 0..MaxTime

\* largest value of the cached status (bit_rate and the fields refreshed
\* with it)
MaxBitRate == 1

BitRates == 0..MaxBitRate

\* chunks in the MusicBuffer
BufferChunks == 2

\* chunks the decoder enqueues between two stops
MaxPush == 3

\* largest size of the data FilterChunk returns for one chunk
MaxData == 1

\* the client threads; Spec runs the main thread alone
Clients == {"main", "aux"}
NoThread == "none"

\* std::unique_ptr<DetachedSong>: nullptr, or the instance it owns.  An
\* instance is named by its address: no two live instances share one.  What
\* a DetachedSong holds (its uri, its tag) is read by none of the modelled
\* code and is left out.
NoSong == 0
Songs == 1..(Cardinality(Clients) + 2)

\* std::exception_ptr: empty, or the stored exception
NoError == "null"

PlayerStates == {"STOP", "PAUSE", "PLAY"}
PlayerCommands == {"NONE", "EXIT", "STOP", "PAUSE", "SEEK", "CLOSE_AUDIO",
                   "UPDATE_AUDIO", "QUEUE", "CANCEL", "REFRESH"}
PlayerErrors == {"NONE", "DECODER", "OUTPUT"}

VARIABLES
    \* ---- PlayerControl (Control.cxx) ----
    mutex,          \* owner of PlayerControl::mutex, or NoThread
    cond,           \* threads blocked in cond.wait(mutex)
    client_cond,    \* threads blocked in client_cond.wait(mutex)
    command,        \* PlayerControl::command
    state,          \* PlayerControl::state
    error_type,     \* PlayerControl::error_type
    error,          \* PlayerControl::error
    next_song,      \* PlayerControl::next_song
    seek_time,      \* PlayerControl::seek_time
    border_pause,   \* PlayerControl::border_pause
    occupied,       \* PlayerControl::occupied
    thread_defined, \* PlayerControl::thread.IsDefined()
    bit_rate,       \* PlayerControl::bit_rate, and with it audio_format,
                    \* total_time and elapsed_time
    \* ---- the client threads: position and locals of the running call ----
    pc,             \* position of each client thread
    c_op,           \* the public method the client is running
    c_song,         \* the `song' argument, until it is moved away
    c_given,        \* the instance that `song' pointed to when the call began
    c_time,         \* the `t' argument
    c_arg,          \* the boolean argument (pause_flag, border_pause), if any
    c_cmd,          \* the `cmd' argument of SynchronousCommand
    c_ret,          \* where SynchronousCommand returns to
    sent,           \* commands written by the running call
    c_status,       \* the player_status LockGetStatus is about to return
    \* ---- the player thread ----
    pl_pc,          \* position of the player thread
    playing,        \* the player thread is inside its playback loop
    queued,         \* next_song was accepted by QUEUE and not yet started
    dc_song,        \* DecoderControl::song, the song owned by the decoder
    dc_next,        \* the decoder is pre-decoding the queued song
    \* ---- history, recorded when `track' is set ----
    track,          \* whether `last' and `ack_error' are recorded in this run
    last,           \* the last call that returned: method, argument, commands, outcome
    ack_error,      \* error_type as it was when the last command was finished
    \* ---- MusicBuffer, MusicPipe and the decoder that fills them ----
    buffer_free,    \* the chunks on the buffer's free list
    dc_chunk,       \* the chunk the decoder is filling, or NoChunk
    music_pipe,     \* the pipe: the enqueued chunks, oldest first
    pushed,         \* chunks the decoder has enqueued since the last stop
    decoding,       \* a playback session is running
    \* ---- AudioOutputSource (Source.cxx), one per output ----
    is_open,        \* AudioOutputSource::IsOpen()
    current_chunk,  \* AudioOutputSource::current_chunk
    pending_tag,    \* AudioOutputSource::pending_tag != nullptr
    pending_data,   \* size of AudioOutputSource::pending_data
    sp_chunk,       \* position of AudioOutputSource::pipe in the MusicPipe
    sp_consumed,    \* AudioOutputSource::pipe has consumed the chunk at its position
    src_pc,         \* "off" until the output thread runs, "filter" while Fill
                    \* runs FilterChunk without the mutex
    delivered,      \* enqueue number of the chunk the last successful Fill obtained
    dropped,        \* a source has dropped a chunk it held without Consume
    fill_ret,       \* how the last Fill of each source ended, "none" while it runs,
                    \* "reported" once the player has stored its failure
    \* ---- DecoderControl (DecoderControl.hxx) and its two threads ----
    dc_state,       \* DecoderControl::state
    dc_command,     \* DecoderControl::command
    dc_error,       \* DecoderControl::error
    dc_pc,          \* "wait" while the player thread is inside WaitCommandLocked
    dc_last,        \* the last step on the DecoderControl: the method the player
                    \* thread called, or "thread" for a step of the decoder thread
    dc_before,      \* DecoderControl::state as it was before that step
    dc_checks,      \* CheckRethrowError calls since any other step of the decoder
    dc_raised,      \* whether the last CheckRethrowError raised
    \* ---- AudioOutputSource: formats, filters and the mutex given to Fill ----
    out_mutex,      \* the thread that holds the mutex of each output
    in_audio_format,    \* AudioOutputSource::in_audio_format
    sp_pipe,        \* the MusicPipe AudioOutputSource::pipe is bound to
    filter_instance,    \* AudioOutputSource::filter_instance: the format the
                        \* chain was opened with, or NoFilter for nullptr
    replay_gain_filter_instance,        \* the replay gain filter of the chunks
    other_replay_gain_filter_instance,  \* and the one of their companions
    replay_gain_serial,         \* AudioOutputSource::replay_gain_serial
    other_replay_gain_serial,   \* AudioOutputSource::other_replay_gain_serial
    open_calls,     \* the last Open of each source: its arguments, which of
                    \* pipe.Init, CloseFilter and OpenFilter it called, whether
                    \* it threw
    fc,             \* the last FilterChunk of each source: the chunk and the result
    skipped,        \* bytes ConsumeData has taken from the front of the filtered
                    \* buffer; `fc' and `skipped' are recorded when `track' is set
    consumes        \* the calls of pipe.Consume by each source, recorded when `on'

pcVars == <<mutex, cond, client_cond, command, state, error_type, error,
            next_song, seek_time, border_pause, occupied, thread_defined, bit_rate>>
clientVars == <<pc, c_op, c_song, c_given, c_time, c_arg, c_cmd, c_ret, sent, last, track,
                c_status>>
playerVars == <<pl_pc, playing, queued, dc_song, dc_next, ack_error>>
sourceVars == <<buffer_free, dc_chunk, music_pipe, pushed, decoding, is_open,
                current_chunk, pending_tag, pending_data, sp_chunk, sp_consumed,
                src_pc, delivered, dropped, fill_ret>>
decoderVars == <<dc_state, dc_command, dc_error, dc_pc, dc_last, dc_before, dc_checks,
                 dc_raised>>
filterVars == <<out_mutex, in_audio_format, sp_pipe, filter_instance,
                replay_gain_filter_instance, other_replay_gain_filter_instance,
                replay_gain_serial, other_replay_gain_serial, open_calls, fc, skipped,
                consumes>>
controlVars == <<pcVars, clientVars, playerVars>>
vars == <<controlVars, sourceVars, decoderVars, filterVars>>

Chunks == 1..BufferChunks
NoChunk == 0
Sources == {"a", "b"}

\* AudioFormat: the cleared format, and the formats an output is opened with.
\* pcm_mix has no implementation for DSD samples.
NoFormat == "undefined"
Formats == {"44100:16:2", "dsd64:2"}
Mixable(audio_format) == audio_format # "dsd64:2"

\* the pipe of the player, and a second pipe that holds no chunk
NoPipe == "nullptr"
ThePipe == "pipe"
Pipes == {ThePipe, "other_pipe"}

\* a Filter pointer that is nullptr
NoFilter == "nullptr"

\* Open has not been called
NoOpen == [audio_format |-> NoFormat, pipe |-> NoPipe, calls |-> {}]

\* largest replay_gain_serial of a chunk that carries replay gain info
MaxSerial == 1

\* largest length of a chunk and of its companion
MaxBytes == 2

\* MusicChunk::IGNORE_REPLAY_GAIN, the largest serial
IGNORE_REPLAY_GAIN == MaxSerial + 1

\* a replay gain filter instance: nullptr, or the instance and the serial of
\* the ReplayGainInfo it was last given (0 for none)
NoReplayGainFilter == [open |-> FALSE, info |-> 0]
NewReplayGainFilter == [open |-> TRUE, info |-> 0]

\* what a chunk holds for FilterChunk: its length and serial, whether it has a
\* companion (chunk.other) and the companion's length and serial, whether the
\* output filter chain accepts the data, and what comes out of a call through
\* a null filter_instance
PlainChunk(length, filter_ok) ==
    [length |-> length, replay_gain_serial |-> 0, other |-> FALSE, other_length |-> 0,
     other_serial |-> 0, filter_ok |-> filter_ok, garbage |-> 0]

\* no FilterChunk has run
NoFilterChunk == [ran |-> FALSE]

\* the record of a source's pipe.Consume calls: `calls' counts them since the
\* last pipe.Get, `twice' and `none' remember a second call for one Get and a
\* call made with current_chunk == nullptr, `misuse' a ConsumeData entered
\* with current_chunk == nullptr
NoConsumes == [on |-> FALSE, calls |-> 0, twice |-> FALSE, none |-> FALSE,
               misuse |-> FALSE]

NoCall == [op |-> "none", arg |-> "", sent |-> 0, res |-> "none"]

\* no player_status is being returned
NoStatus == [state |-> "none", bit_rate |-> 0]

InitState ==
    /\ mutex = NoThread
    /\ cond = {}
    /\ client_cond = {}
    /\ command = "NONE"
    /\ state = "STOP"
    /\ error_type = "NONE"
    /\ error = NoError
    /\ next_song = NoSong
    /\ seek_time = 0
    /\ border_pause = FALSE
    /\ occupied = FALSE
    /\ thread_defined = TRUE
    /\ bit_rate \in BitRates
    /\ pc = [c \in Clients |-> "idle"]
    /\ c_op = [c \in Clients |-> "none"]
    /\ c_song = [c \in Clients |-> NoSong]
    /\ c_given = [c \in Clients |-> NoSong]
    /\ c_time = [c \in Clients |-> 0]
    /\ c_arg = [c \in Clients |-> ""]
    /\ c_cmd = [c \in Clients |-> "NONE"]
    /\ c_ret = [c \in Clients |-> "idle"]
    /\ sent = [c \in Clients |-> 0]
    /\ c_status = [c \in Clients |-> NoStatus]
    /\ last = [c \in Clients |-> NoCall]
    /\ pl_pc = "ready"
    /\ playing = FALSE
    /\ queued = FALSE
    /\ dc_song = NoSong
    /\ dc_next = FALSE
    /\ ack_error = "NONE"
    /\ buffer_free = Chunks
    /\ dc_chunk = NoChunk
    /\ music_pipe = <<>>
    /\ pushed = 0
    /\ decoding = FALSE
    /\ is_open = [s \in Sources |-> FALSE]
    /\ current_chunk = [s \in Sources |-> NoChunk]
    /\ pending_tag = [s \in Sources |-> FALSE]
    /\ pending_data = [s \in Sources |-> 0]
    /\ sp_chunk = [s \in Sources |-> 0]
    /\ sp_consumed = [s \in Sources |-> FALSE]
    /\ src_pc = [s \in Sources |-> "off"]
    /\ delivered = [s \in Sources |-> 0]
    /\ dropped = FALSE
    /\ fill_ret = [s \in Sources |-> "none"]
    /\ dc_state = "STOP"
    /\ dc_command = "NONE"
    /\ dc_error = NoError
    /\ dc_pc = "idle"
    /\ dc_last = "none"
    /\ dc_before = "STOP"
    /\ dc_checks = 0
    /\ dc_raised = FALSE
    /\ out_mutex = [s \in Sources |-> NoThread]
    /\ in_audio_format = [s \in Sources |-> NoFormat]
    /\ sp_pipe = [s \in Sources |-> NoPipe]
    /\ filter_instance = [s \in Sources |-> NoFilter]
    /\ replay_gain_filter_instance = [s \in Sources |-> NoReplayGainFilter]
    /\ other_replay_gain_filter_instance = [s \in Sources |-> NoReplayGainFilter]
    /\ replay_gain_serial = [s \in Sources |-> 0]
    /\ other_replay_gain_serial = [s \in Sources |-> 0]
    /\ open_calls = [s \in Sources |-> NoOpen]
    /\ fc = [s \in Sources |-> NoFilterChunk]
    /\ skipped = [s \in Sources |-> 0]
    /\ consumes \in {[s \in Sources |-> [NoConsumes EXCEPT !.on = b]] : b \in BOOLEAN}

\* the state after construction, without and with the history variables
Init == InitState /\ track = FALSE /\ consumes = [s \in Sources |-> NoConsumes]
InitHist == InitState /\ track = TRUE /\ consumes = [s \in Sources |-> NoConsumes]
\* and with the record of the pipe.Consume calls
InitConsume == InitState /\ track = FALSE /\ \A s \in Sources : consumes[s].on

(***************************************************************************)
(* Condition variables.  A signal wakes one of the threads blocked in      *)
(* wait(), if there is one, and is lost otherwise; a woken thread has to   *)
(* take the mutex again before it runs.                                    *)
(***************************************************************************)
SignalSet(waiters) ==
    IF waiters = {} THEN {waiters} ELSE {waiters \ {t} : t \in waiters}

\* PlayerControl::Signal: cond.signal()
Signal == cond' \in SignalSet(cond)

\* PlayerControl::ClientSignal: client_cond.signal()
ClientSignal == client_cond' \in SignalSet(client_cond)

\* PlayerControl::ClientWait: client_cond.wait(mutex) releases the mutex and blocks
ClientWait(c) ==
    /\ client_cond' = client_cond \cup {c}
    /\ mutex' = NoThread

\* PlayerControl::Wait: cond.wait(mutex), player thread only
Wait ==
    /\ cond' = cond \cup {"player"}
    /\ mutex' = NoThread

\* PlayerControl::CommandFinished (ack_error records error_type at this moment)
CommandFinished ==
    /\ command' = "NONE"
    /\ ClientSignal
    /\ ack_error' = IF track THEN error_type' ELSE ack_error

\* PlayerControl::SetError
SetError(type, e) ==
    /\ error_type' = type
    /\ error' = e

\* ClearError that resets the type and keeps the stored error
ClearError_KeepError ==
    /\ error_type' = "NONE"
    /\ error' = error

\* PlayerControl::ClearError
ClearError ==
    /\ error_type' = "NONE"
    /\ error' = NoError

(***************************************************************************)
(* The client side of PlayerControl.  A call takes the mutex, runs to the  *)
(* entry of SynchronousCommand (pc = "sync"), waits there with the mutex   *)
(* released (pc = "wait") and goes on at c_ret once the command is NONE.   *)
(***************************************************************************)
\* std::make_unique<DetachedSong>: a new instance, at an address no live
\* instance has
LiveSongs == {c_song[c] : c \in Clients} \cup {next_song, dc_song}
NewSong == CHOOSE s \in Songs : s \notin LiveSongs

\* what a step of a client leaves alone; only LockGetStatus and the return
\* from it touch c_status
PlayerFrame ==
    UNCHANGED <<playerVars, sourceVars, decoderVars, filterVars, bit_rate, c_status>>

Goto(c, label) == pc' = [pc EXCEPT ![c] = label]

\* a call of SynchronousCommand(cmd) that returns to `ret'
Call(c, cmd, ret) ==
    /\ c_cmd' = [c_cmd EXCEPT ![c] = cmd]
    /\ c_ret' = [c_ret EXCEPT ![c] = ret]
    /\ Goto(c, "sync")

\* entry of a public method: std::lock_guard<Mutex> protect(mutex)
Begin(c, op, arg) ==
    /\ pc[c] = "idle"
    /\ thread_defined
    /\ mutex = NoThread
    /\ mutex' = c
    /\ c_op' = [c_op EXCEPT ![c] = op]
    /\ c_arg' = [c_arg EXCEPT ![c] = arg]

\* the method returns (res = "ok") or an exception leaves it (res = "threw")
Return(c, res) ==
    /\ Goto(c, "idle")
    /\ last' = IF track
               THEN [last EXCEPT ![c] = [op |-> c_op[c], arg |-> c_arg[c],
                                         sent |-> sent[c], res |-> res]]
               ELSE last
    /\ UNCHANGED track
    /\ c_op' = [c_op EXCEPT ![c] = "none"]
    /\ c_arg' = [c_arg EXCEPT ![c] = ""]
    /\ c_song' = [c_song EXCEPT ![c] = NoSong]
    /\ c_given' = [c_given EXCEPT ![c] = NoSong]
    /\ c_time' = [c_time EXCEPT ![c] = 0]
    /\ c_cmd' = [c_cmd EXCEPT ![c] = "NONE"]
    /\ c_ret' = [c_ret EXCEPT ![c] = "idle"]
    /\ sent' = [sent EXCEPT ![c] = 0]

\* WaitCommandLocked with `if' for `while': one wait, whatever woke it
WaitCommandLocked_Once(c) ==
    /\ pc[c] = "wait"
    /\ c \notin client_cond
    /\ mutex = NoThread
    /\ mutex' = c
    /\ Goto(c, c_ret[c])
    /\ UNCHANGED <<cond, client_cond, command, state, error_type, error, next_song,
                   seek_time, border_pause, occupied, thread_defined>>
    /\ UNCHANGED <<c_op, c_song, c_given, c_time, c_arg, c_cmd, c_ret, sent, last, track>>
    /\ PlayerFrame

\* PlayerControl::WaitCommandLocked, one round of its loop after a wakeup
WaitCommandLocked(c) ==
    /\ pc[c] = "wait"
    /\ c \notin client_cond
    /\ mutex = NoThread
    /\ IF command # "NONE"
       THEN /\ ClientWait(c)
            /\ UNCHANGED pc
       ELSE /\ mutex' = c
            /\ Goto(c, c_ret[c])
            /\ UNCHANGED client_cond
    /\ UNCHANGED <<cond, command, state, error_type, error, next_song, seek_time,
                   border_pause, occupied, thread_defined>>
    /\ UNCHANGED <<c_op, c_song, c_given, c_time, c_arg, c_cmd, c_ret, sent, last, track>>
    /\ PlayerFrame

\* SynchronousCommand without WaitCommandLocked: it returns at once
SynchronousCommand_NoWait(c) ==
    /\ pc[c] = "sync"
    /\ mutex = c
    /\ command' = c_cmd[c]
    /\ Signal
    /\ Goto(c, c_ret[c])
    /\ sent' = [sent EXCEPT ![c] = @ + 1]
    /\ UNCHANGED <<mutex, client_cond, state, error_type, error, next_song, seek_time,
                   border_pause, occupied, thread_defined>>
    /\ UNCHANGED <<c_op, c_song, c_given, c_time, c_arg, c_cmd, c_ret, last, track>>
    /\ PlayerFrame

\* SynchronousCommand without Signal(): the player thread is not woken
SynchronousCommand_NoSignal(c) ==
    /\ pc[c] = "sync"
    /\ mutex = c
    /\ command' = c_cmd[c]
    /\ ClientWait(c)
    /\ Goto(c, "wait")
    /\ sent' = [sent EXCEPT ![c] = @ + 1]
    /\ UNCHANGED <<cond, state, error_type, error, next_song, seek_time,
                   border_pause, occupied, thread_defined>>
    /\ UNCHANGED <<c_op, c_song, c_given, c_time, c_arg, c_cmd, c_ret, last, track>>
    /\ PlayerFrame

\* PlayerControl::SynchronousCommand up to its first ClientWait
SynchronousCommand(c) ==
    /\ pc[c] = "sync"
    /\ mutex = c
    /\ command' = c_cmd[c]
    /\ Signal
    /\ ClientWait(c)
    /\ Goto(c, "wait")
    /\ sent' = [sent EXCEPT ![c] = @ + 1]
    /\ UNCHANGED <<state, error_type, error, next_song, seek_time,
                   border_pause, occupied, thread_defined>>
    /\ UNCHANGED <<c_op, c_song, c_given, c_time, c_arg, c_cmd, c_ret, last, track>>
    /\ PlayerFrame

\* PauseLocked without the test of the state
PauseLocked_Always(c) == Call(c, "PAUSE", "unlock")

\* PlayerControl::PauseLocked
PauseLocked(c) ==
    IF state # "STOP"
    THEN Call(c, "PAUSE", "unlock")
    ELSE Goto(c, "unlock") /\ UNCHANGED <<c_cmd, c_ret>>

\* what a public method leaves alone when it only takes the mutex and
\* prepares a command
EntryFrame ==
    /\ UNCHANGED <<cond, client_cond, command, state, thread_defined, occupied>>
    /\ UNCHANGED <<sent, last, track>>
    /\ PlayerFrame

\* PlayerControl::Play up to its call of SeekLocked
Play(c) ==
    /\ Begin(c, "Play", "")
    /\ c_song' = [c_song EXCEPT ![c] = NewSong]
    /\ c_given' = [c_given EXCEPT ![c] = NewSong]
    /\ c_time' = [c_time EXCEPT ![c] = 0]
    /\ Goto(c, "SeekLocked")
    /\ EntryFrame
    /\ UNCHANGED <<c_cmd, c_ret, error_type, error, next_song, seek_time, border_pause>>

\* PlayerControl::LockSeek up to its call of SeekLocked
LockSeek(c, t) ==
    /\ Begin(c, "LockSeek", "")
    /\ c_song' = [c_song EXCEPT ![c] = NewSong]
    /\ c_given' = [c_given EXCEPT ![c] = NewSong]
    /\ c_time' = [c_time EXCEPT ![c] = t]
    /\ Goto(c, "SeekLocked")
    /\ EntryFrame
    /\ UNCHANGED <<c_cmd, c_ret, error_type, error, next_song, seek_time, border_pause>>

\* SeekLocked without the CANCEL of the queued song
SeekLocked_NoCancel(c) ==
    /\ pc[c] = "SeekLocked"
    /\ mutex = c
    /\ Goto(c, "seek_set")
    /\ UNCHANGED <<c_cmd, c_ret>>
    /\ UNCHANGED pcVars
    /\ UNCHANGED <<c_op, c_song, c_given, c_time, c_arg, sent, last, track>>
    /\ PlayerFrame

\* PlayerControl::SeekLocked, lines 247-248: CANCEL the queued song first
SeekLocked(c) ==
    /\ pc[c] = "SeekLocked"
    /\ mutex = c
    /\ IF next_song # NoSong
       THEN Call(c, "CANCEL", "seek_set")
       ELSE Goto(c, "seek_set") /\ UNCHANGED <<c_cmd, c_ret>>
    /\ UNCHANGED pcVars
    /\ UNCHANGED <<c_op, c_song, c_given, c_time, c_arg, sent, last, track>>
    /\ PlayerFrame

\* SeekLocked that does not store seek_time
SeekLockedIssue_KeepTime(c) ==
    /\ pc[c] = "seek_set"
    /\ mutex = c
    /\ ClearError
    /\ next_song' = c_song[c]
    /\ c_song' = [c_song EXCEPT ![c] = NoSong]
    /\ Call(c, "SEEK", "seek_done")
    /\ UNCHANGED <<mutex, cond, client_cond, command, state, border_pause,
                   occupied, thread_defined, seek_time>>
    /\ UNCHANGED <<c_op, c_given, c_time, c_arg, sent, last, track>>
    /\ PlayerFrame

\* SeekLocked that issues SEEK without ClearError()
SeekLockedIssue_NoClear(c) ==
    /\ pc[c] = "seek_set"
    /\ mutex = c
    /\ next_song' = c_song[c]
    /\ c_song' = [c_song EXCEPT ![c] = NoSong]
    /\ seek_time' = c_time[c]
    /\ Call(c, "SEEK", "seek_done")
    /\ UNCHANGED <<mutex, cond, client_cond, command, state, error_type, error,
                   border_pause, occupied, thread_defined>>
    /\ UNCHANGED <<c_op, c_given, c_time, c_arg, sent, last, track>>
    /\ PlayerFrame

\* PlayerControl::SeekLocked, lines 250-255: store the song and issue SEEK
SeekLockedIssue(c) ==
    /\ pc[c] = "seek_set"
    /\ mutex = c
    /\ ClearError
    /\ next_song' = c_song[c]
    /\ c_song' = [c_song EXCEPT ![c] = NoSong]
    /\ seek_time' = c_time[c]
    /\ Call(c, "SEEK", "seek_done")
    /\ UNCHANGED <<mutex, cond, client_cond, command, state, border_pause,
                   occupied, thread_defined>>
    /\ UNCHANGED <<c_op, c_given, c_time, c_arg, sent, last, track>>
    /\ PlayerFrame

\* SeekLocked that never rethrows
SeekLockedResult_NoThrow(c) ==
    /\ pc[c] = "seek_done"
    /\ mutex = c
    /\ IF c_op[c] = "Play" THEN Goto(c, "play_tail") ELSE Goto(c, "unlock")
    /\ UNCHANGED pcVars
    /\ UNCHANGED <<c_op, c_song, c_given, c_time, c_arg, c_cmd, c_ret, sent, last, track>>
    /\ PlayerFrame

\* PlayerControl::SeekLocked, lines 257-264: rethrow the stored error, if any
SeekLockedResult(c) ==
    /\ pc[c] = "seek_done"
    /\ mutex = c
    /\ IF error_type # "NONE"
       THEN Goto(c, "throw")
       ELSE IF c_op[c] = "Play" THEN Goto(c, "play_tail") ELSE Goto(c, "unlock")
    /\ UNCHANGED pcVars
    /\ UNCHANGED <<c_op, c_song, c_given, c_time, c_arg, c_cmd, c_ret, sent, last, track>>
    /\ PlayerFrame

\* Play that sends PAUSE after its SEEK whatever the state is
PlayUnpause_Always(c) ==
    /\ pc[c] = "play_tail"
    /\ mutex = c
    /\ Call(c, "PAUSE", "unlock")
    /\ UNCHANGED pcVars
    /\ UNCHANGED <<c_op, c_song, c_given, c_time, c_arg, sent, last, track>>
    /\ PlayerFrame

\* PlayerControl::Play, lines 70-73: unpause after the seek
PlayUnpause(c) ==
    /\ pc[c] = "play_tail"
    /\ mutex = c
    /\ IF state = "PAUSE"
       THEN PauseLocked(c)
       ELSE Goto(c, "unlock") /\ UNCHANGED <<c_cmd, c_ret>>
    /\ UNCHANGED pcVars
    /\ UNCHANGED <<c_op, c_song, c_given, c_time, c_arg, sent, last, track>>
    /\ PlayerFrame

\* PlayerControl::LockEnqueueSong and EnqueueSongLocked up to SynchronousCommand;
\* the caller keeps the precondition assert(next_song == nullptr)
LockEnqueueSong(c) ==
    /\ Begin(c, "LockEnqueueSong", "")
    /\ next_song = NoSong
    /\ next_song' = NewSong
    /\ c_given' = [c_given EXCEPT ![c] = NewSong]
    /\ seek_time' = 0
    /\ Call(c, "QUEUE", "unlock")
    /\ EntryFrame
    /\ UNCHANGED <<c_song, c_time, error_type, error, border_pause>>

\* a public method that only wraps LockSynchronousCommand(cmd)
LockCommand(c, op, cmd) ==
    /\ Begin(c, op, "")
    /\ Call(c, cmd, "unlock")
    /\ EntryFrame
    /\ UNCHANGED <<c_song, c_given, c_time, error_type, error, next_song,
                   seek_time, border_pause>>

\* PlayerControl::LockCancel up to SynchronousCommand
LockCancel(c) == LockCommand(c, "LockCancel", "CANCEL")

\* LockStop that sends CANCEL for CLOSE_AUDIO
LockStop_AsCancel(c) == LockCommand(c, "LockStop", "CANCEL")

\* PlayerControl::LockStop up to SynchronousCommand
LockStop(c) == LockCommand(c, "LockStop", "CLOSE_AUDIO")

\* PlayerControl::LockUpdateAudio up to SynchronousCommand
LockUpdateAudio(c) == LockCommand(c, "LockUpdateAudio", "UPDATE_AUDIO")

\* PlayerControl::Kill up to SynchronousCommand
Kill(c) == LockCommand(c, "Kill", "EXIT")

\* PlayerControl::LockPause
LockPause(c) ==
    /\ Begin(c, "LockPause", "")
    /\ PauseLocked(c)
    /\ EntryFrame
    /\ UNCHANGED <<c_song, c_given, c_time, error_type, error, next_song,
                   seek_time, border_pause>>

\* PlayerControl::LockSetPause: the switch over the state
SetPauseSends(pause_flag) ==
    \/ state = "PLAY" /\ pause_flag
    \/ state = "PAUSE" /\ ~pause_flag

\* PlayerControl::LockSetPause
LockSetPause(c, pause_flag) ==
    /\ Begin(c, "LockSetPause", IF pause_flag THEN "true" ELSE "false")
    /\ IF SetPauseSends(pause_flag)
       THEN PauseLocked(c)
       ELSE Goto(c, "unlock") /\ UNCHANGED <<c_cmd, c_ret>>
    /\ EntryFrame
    /\ UNCHANGED <<c_song, c_given, c_time, error_type, error, next_song,
                   seek_time, border_pause>>

\* PlayerControl::LockSetBorderPause
LockSetBorderPause(c, b) ==
    /\ Begin(c, "LockSetBorderPause", IF b THEN "true" ELSE "false")
    /\ border_pause' = b
    /\ Goto(c, "unlock")
    /\ EntryFrame
    /\ UNCHANGED <<c_song, c_given, c_time, c_cmd, c_ret, error_type, error,
                   next_song, seek_time>>

\* LockGetStatus that does not test occupied
LockGetStatus_NoTest(c) ==
    /\ Begin(c, "LockGetStatus", "")
    /\ Call(c, "REFRESH", "status")
    /\ EntryFrame
    /\ UNCHANGED <<c_song, c_given, c_time, error_type, error, next_song,
                   seek_time, border_pause>>

\* PlayerControl::LockGetStatus up to SynchronousCommand
LockGetStatus(c) ==
    /\ Begin(c, "LockGetStatus", "")
    /\ IF ~occupied
       THEN Call(c, "REFRESH", "status")
       ELSE Goto(c, "status") /\ UNCHANGED <<c_cmd, c_ret>>
    /\ EntryFrame
    /\ UNCHANGED <<c_song, c_given, c_time, error_type, error, next_song,
                   seek_time, border_pause>>

\* PlayerControl::LockGetStatus, lines 162-171: copy the state and, unless it
\* is STOP, the cached fields; in STOP those fields of the local
\* player_status stay uninitialized, so the caller gets any value
LockGetStatusRead(c) ==
    /\ pc[c] = "status"
    /\ mutex = c
    /\ \E r \in BitRates :
          /\ state # "STOP" => r = bit_rate
          /\ c_status' = [c_status EXCEPT ![c] = [state |-> state, bit_rate |-> r]]
    /\ Goto(c, "unlock")
    /\ UNCHANGED pcVars
    /\ UNCHANGED <<c_op, c_song, c_given, c_time, c_arg, c_cmd, c_ret, sent, last, track>>
    /\ UNCHANGED <<playerVars, sourceVars, decoderVars, filterVars>>

\* PlayerControl::LockClearError
LockClearError(c) ==
    /\ Begin(c, "LockClearError", "")
    /\ ClearError
    /\ Goto(c, "unlock")
    /\ EntryFrame
    /\ UNCHANGED <<c_song, c_given, c_time, c_cmd, c_ret, next_song, seek_time,
                   border_pause>>

\* the end of the lock_guard's scope; LockCancel and LockStop go on to
\* their assertion, Kill to thread.Join(), the others return
Unlock(c) ==
    /\ pc[c] = "unlock"
    /\ mutex = c
    /\ mutex' = NoThread
    /\ IF c_op[c] \in {"LockCancel", "LockStop"}
       THEN /\ Goto(c, "post")
            /\ UNCHANGED <<c_op, c_song, c_given, c_time, c_arg, c_cmd, c_ret, sent, last, track>>
       ELSE IF c_op[c] = "Kill"
       THEN /\ Goto(c, "join")
            /\ UNCHANGED <<c_op, c_song, c_given, c_time, c_arg, c_cmd, c_ret, sent, last, track>>
       ELSE Return(c, "ok")
    /\ c_status' = [c_status EXCEPT ![c] = NoStatus]
    /\ UNCHANGED <<cond, client_cond, command, state, error_type, error, next_song,
                   seek_time, border_pause, occupied, thread_defined, bit_rate>>
    /\ UNCHANGED <<playerVars, sourceVars, decoderVars, filterVars>>

\* std::rethrow_exception(error) leaves SeekLocked and its caller; the
\* lock_guard releases the mutex
Rethrow(c) ==
    /\ pc[c] = "throw"
    /\ mutex = c
    /\ mutex' = NoThread
    /\ Return(c, "threw")
    /\ UNCHANGED <<cond, client_cond, command, state, error_type, error, next_song,
                   seek_time, border_pause, occupied, thread_defined>>
    /\ PlayerFrame

\* LockCancel and LockStop: assert(next_song == nullptr), then return
AfterUnlock(c) ==
    /\ pc[c] = "post"
    /\ Return(c, "ok")
    /\ UNCHANGED pcVars
    /\ PlayerFrame

\* Kill that returns without joining the thread
Join_NoJoin(c) ==
    /\ pc[c] = "join"
    /\ thread_defined' = FALSE
    /\ Return(c, "ok")
    /\ UNCHANGED <<mutex, cond, client_cond, command, state, error_type, error,
                   next_song, seek_time, border_pause, occupied>>
    /\ PlayerFrame

\* PlayerControl::Kill: thread.Join()
Join(c) ==
    /\ pc[c] = "join"
    /\ pl_pc = "exited"
    /\ thread_defined' = FALSE
    /\ Return(c, "ok")
    /\ UNCHANGED <<mutex, cond, client_cond, command, state, error_type, error,
                   next_song, seek_time, border_pause, occupied>>
    /\ PlayerFrame

\* a thread blocked in a condition variable's wait() may wake without a signal
SpuriousWakeup ==
    /\ \/ /\ cond # {}
          /\ cond' \in {cond \ {t} : t \in cond}
          /\ UNCHANGED client_cond
       \/ /\ client_cond # {}
          /\ client_cond' \in {client_cond \ {t} : t \in client_cond}
          /\ UNCHANGED cond
    /\ UNCHANGED <<mutex, command, state, error_type, error, next_song, seek_time,
                   border_pause, occupied, thread_defined>>
    /\ UNCHANGED clientVars
    /\ PlayerFrame

(***************************************************************************)
(* The player thread (PlayerControl::RunThread).  It tests the command     *)
(* with the mutex held before it waits; it runs a command to its end       *)
(* before it looks at the next one; it releases the mutex while it waits   *)
(* for the decoder (occupied) and while a chunk is played.                 *)
(***************************************************************************)
\* the player thread is at the top of its loop and can take the mutex
PlayerReady ==
    /\ mutex = NoThread
    /\ \/ pl_pc = "ready"
       \/ pl_pc = "wait" /\ "player" \notin cond

\* what a step of the player thread leaves alone; only REFRESH writes the
\* cached status
ClientFrame ==
    UNCHANGED <<clientVars, sourceVars, decoderVars, filterVars, bit_rate>>

\* no command and nothing to play: Wait()
PlayerWait ==
    /\ PlayerReady
    /\ command = "NONE"
    /\ ~(playing /\ state = "PLAY")
    /\ Wait
    /\ pl_pc' = "wait"
    /\ UNCHANGED <<client_cond, command, state, error_type, error, next_song,
                   seek_time, border_pause, occupied, thread_defined>>
    /\ UNCHANGED <<playing, queued, dc_song, dc_next, ack_error>>
    /\ ClientFrame

\* no command while playing: release the mutex and play one chunk
PlayerPlay ==
    /\ PlayerReady
    /\ command = "NONE"
    /\ playing /\ state = "PLAY"
    /\ pl_pc' = "play"
    /\ UNCHANGED pcVars
    /\ UNCHANGED <<playing, queued, dc_song, dc_next, ack_error>>
    /\ ClientFrame

\* the chunk was played
ChunkPlayed ==
    /\ pl_pc = "play"
    /\ mutex = NoThread
    /\ pl_pc' = "ready"
    /\ UNCHANGED pcVars
    /\ UNCHANGED <<playing, queued, dc_song, dc_next, ack_error>>
    /\ ClientFrame

\* SetOutputError that only stores the error
SetOutputError_KeepState(e) ==
    /\ SetError("OUTPUT", e)
    /\ state' = state

\* PlayerControl::SetOutputError
SetOutputError(e) ==
    /\ SetError("OUTPUT", e)
    /\ state' = "PAUSE"

\* PlayerControl::LockSetOutputError, called when an output failed to play
LockSetOutputError ==
    /\ pl_pc = "play"
    /\ mutex = NoThread
    /\ SetOutputError("output_failure")
    /\ pl_pc' = "ready"
    /\ UNCHANGED <<mutex, cond, client_cond, command, next_song, seek_time,
                   border_pause, occupied, thread_defined>>
    /\ UNCHANGED <<playing, queued, dc_song, dc_next, ack_error>>
    /\ ClientFrame

\* the decoder failed while the player was not waiting for it
DecoderFailed ==
    /\ pl_pc = "play"
    /\ mutex = NoThread
    /\ dc_song # NoSong
    /\ SetError("DECODER", "decoder_failure")
    /\ state' = "PAUSE"
    /\ dc_song' = NoSong
    /\ dc_next' = FALSE
    /\ queued' = IF dc_next THEN FALSE ELSE queued
    /\ pl_pc' = "ready"
    /\ UNCHANGED <<mutex, cond, client_cond, command, next_song, seek_time,
                   border_pause, occupied, thread_defined>>
    /\ UNCHANGED <<playing, ack_error>>
    /\ ClientFrame

\* the decoder has finished the current song: start it on the queued one
StartNextSong ==
    /\ pl_pc = "play"
    /\ mutex = NoThread
    /\ queued /\ next_song # NoSong /\ ~dc_next
    /\ dc_song' = next_song
    /\ next_song' = NoSong
    /\ dc_next' = TRUE
    /\ pl_pc' = "ready"
    /\ UNCHANGED <<mutex, cond, client_cond, command, state, error_type, error,
                   seek_time, border_pause, occupied, thread_defined>>
    /\ UNCHANGED <<playing, queued, ack_error>>
    /\ ClientFrame

\* ApplyBorderPause that pauses at every border
ApplyBorderPause_Always ==
    /\ state' = "PAUSE"
    /\ pl_pc' = "border"

\* PlayerControl::ApplyBorderPause; when it returns true the caller goes on
\* to pause the outputs and notify the listener (pl_pc = "border")
ApplyBorderPause ==
    /\ state' = IF border_pause THEN "PAUSE" ELSE state
    /\ pl_pc' = IF border_pause THEN "border" ELSE "ready"

\* the current song was consumed by all outputs and the next one is decoded:
\* LockApplyBorderPause, then the next song becomes the current one
SongBorder ==
    /\ pl_pc = "play"
    /\ mutex = NoThread
    /\ dc_next
    /\ ApplyBorderPause
    /\ dc_next' = FALSE
    /\ queued' = FALSE
    /\ UNCHANGED <<mutex, cond, client_cond, command, error_type, error, next_song,
                   seek_time, border_pause, occupied, thread_defined>>
    /\ UNCHANGED <<playing, dc_song, ack_error>>
    /\ ClientFrame

\* ApplyBorderPause returned true: the outputs are paused and the listener
\* is told
BorderPaused ==
    /\ pl_pc = "border"
    /\ pl_pc' = "ready"
    /\ UNCHANGED pcVars
    /\ UNCHANGED <<playing, queued, dc_song, dc_next, ack_error>>
    /\ ClientFrame

\* the current song was consumed and nothing is queued: playback stops
SongEnd ==
    /\ pl_pc = "play"
    /\ mutex = NoThread
    /\ ~queued /\ ~dc_next
    /\ state' = "STOP"
    /\ playing' = FALSE
    /\ dc_song' = NoSong
    /\ pl_pc' = "ready"
    /\ UNCHANGED <<mutex, cond, client_cond, command, error_type, error, next_song,
                   seek_time, border_pause, occupied, thread_defined>>
    /\ UNCHANGED <<queued, dc_next, ack_error>>
    /\ ClientFrame

\* QUEUE: accept next_song; when stopped, start decoding it at once
ProcessQueue ==
    /\ PlayerReady
    /\ command = "QUEUE"
    /\ UNCHANGED <<error_type, error>>
    /\ CommandFinished
    /\ IF playing
       THEN /\ queued' = TRUE
            /\ pl_pc' = "ready"
            /\ UNCHANGED <<next_song, dc_song, occupied>>
       ELSE /\ dc_song' = next_song
            /\ next_song' = NoSong
            /\ occupied' = TRUE
            /\ pl_pc' = "start"
            /\ UNCHANGED queued
    /\ UNCHANGED <<mutex, cond, state, seek_time, border_pause, thread_defined>>
    /\ UNCHANGED <<playing, dc_next>>
    /\ ClientFrame

\* the decoder has answered the START of the first song
StartDone(ok) ==
    /\ pl_pc = "start"
    /\ mutex = NoThread
    /\ occupied' = FALSE
    /\ IF ok
       THEN /\ playing' = TRUE
            /\ state' = "PLAY"
            /\ UNCHANGED <<error_type, error, dc_song>>
       ELSE /\ SetError("DECODER", "decoder_failure")
            /\ dc_song' = NoSong
            /\ UNCHANGED <<playing, state>>
    /\ pl_pc' = "ready"
    /\ UNCHANGED <<mutex, cond, client_cond, command, next_song, seek_time,
                   border_pause, thread_defined>>
    /\ UNCHANGED <<queued, dc_next, ack_error>>
    /\ ClientFrame

\* SEEK: hand next_song to the decoder and wait for it with the mutex released
ProcessSeek ==
    /\ PlayerReady
    /\ command = "SEEK"
    /\ dc_song' = next_song
    /\ next_song' = NoSong
    /\ dc_next' = FALSE
    /\ queued' = FALSE
    /\ occupied' = TRUE
    /\ pl_pc' = "seek"
    /\ UNCHANGED <<mutex, cond, client_cond, command, state, error_type, error,
                   seek_time, border_pause, thread_defined>>
    /\ UNCHANGED <<playing, ack_error>>
    /\ ClientFrame

\* the decoder has answered the seek: the error, if any, is stored before
\* the command is finished
SeekDone(ok) ==
    /\ pl_pc = "seek"
    /\ mutex = NoThread
    /\ occupied' = FALSE
    /\ IF ok
       THEN /\ playing' = TRUE
            /\ state' = IF state = "STOP" THEN "PLAY" ELSE state
            /\ UNCHANGED <<error_type, error, dc_song>>
       ELSE /\ SetError("DECODER", "decoder_failure")
            /\ dc_song' = NoSong
            /\ UNCHANGED <<playing, state>>
    /\ CommandFinished
    /\ pl_pc' = "ready"
    /\ UNCHANGED <<mutex, cond, next_song, seek_time, border_pause, thread_defined>>
    /\ UNCHANGED <<queued, dc_next>>
    /\ ClientFrame

\* CANCEL: drop next_song; stop the decoder if it pre-decodes that song
ProcessCancel ==
    /\ PlayerReady
    /\ command = "CANCEL"
    /\ next_song' = NoSong
    /\ queued' = FALSE
    /\ dc_next' = FALSE
    /\ dc_song' = IF dc_next THEN NoSong ELSE dc_song
    /\ UNCHANGED <<error_type, error>>
    /\ CommandFinished
    /\ pl_pc' = "ready"
    /\ UNCHANGED <<mutex, cond, state, seek_time, border_pause, occupied,
                   thread_defined>>
    /\ UNCHANGED playing
    /\ ClientFrame

\* PAUSE: toggle between PLAY and PAUSE
ProcessPause ==
    /\ PlayerReady
    /\ command = "PAUSE"
    /\ state' = CASE state = "PLAY" -> "PAUSE"
                  [] state = "PAUSE" -> "PLAY"
                  [] OTHER -> state
    /\ UNCHANGED <<error_type, error>>
    /\ CommandFinished
    /\ pl_pc' = "ready"
    /\ UNCHANGED <<mutex, cond, next_song, seek_time, border_pause, occupied,
                   thread_defined>>
    /\ UNCHANGED <<playing, queued, dc_song, dc_next>>
    /\ ClientFrame

\* CLOSE_AUDIO: stop playback, close all outputs
ProcessCloseAudio ==
    /\ PlayerReady
    /\ command = "CLOSE_AUDIO"
    /\ state' = "STOP"
    /\ playing' = FALSE
    /\ next_song' = NoSong
    /\ queued' = FALSE
    /\ dc_song' = NoSong
    /\ dc_next' = FALSE
    /\ UNCHANGED <<error_type, error>>
    /\ CommandFinished
    /\ pl_pc' = "ready"
    /\ UNCHANGED <<mutex, cond, seek_time, border_pause, occupied, thread_defined>>
    /\ ClientFrame

\* UPDATE_AUDIO and REFRESH change none of the modelled fields
ProcessOther ==
    /\ PlayerReady
    /\ command \in {"UPDATE_AUDIO", "REFRESH"}
    /\ IF command = "REFRESH" /\ playing
       THEN bit_rate' \in BitRates
       ELSE bit_rate' = bit_rate
    /\ UNCHANGED <<error_type, error>>
    /\ CommandFinished
    /\ pl_pc' = "ready"
    /\ UNCHANGED <<mutex, cond, state, next_song, seek_time, border_pause,
                   occupied, thread_defined>>
    /\ UNCHANGED <<playing, queued, dc_song, dc_next>>
    /\ UNCHANGED <<clientVars, sourceVars, decoderVars, filterVars>>

\* EXIT: finish the command and leave the loop
ProcessExit ==
    /\ PlayerReady
    /\ command = "EXIT"
    /\ UNCHANGED <<error_type, error>>
    /\ CommandFinished
    /\ pl_pc' = "exiting"
    /\ UNCHANGED <<mutex, cond, state, next_song, seek_time, border_pause,
                   occupied, thread_defined>>
    /\ UNCHANGED <<playing, queued, dc_song, dc_next>>
    /\ ClientFrame

\* the thread function returns
ThreadExit ==
    /\ pl_pc = "exiting"
    /\ pl_pc' = "exited"
    /\ UNCHANGED pcVars
    /\ UNCHANGED <<playing, queued, dc_song, dc_next, ack_error>>
    /\ ClientFrame

\* PlayerControl::ChunksConsumed, called by an output thread: LockSignal()
ChunksConsumed ==
    /\ mutex = NoThread
    /\ playing
    /\ cond # {}
    /\ Signal
    /\ UNCHANGED <<mutex, client_cond, command, state, error_type, error, next_song,
                   seek_time, border_pause, occupied, thread_defined>>
    /\ PlayerFrame
    /\ ClientFrame

PlayerStep ==
    \/ PlayerWait
    \/ PlayerPlay
    \/ ChunkPlayed
    \/ LockSetOutputError
    \/ DecoderFailed
    \/ StartNextSong
    \/ SongBorder
    \/ BorderPaused
    \/ SongEnd
    \/ ProcessQueue
    \/ \E ok \in BOOLEAN : StartDone(ok)
    \/ ProcessSeek
    \/ \E ok \in BOOLEAN : SeekDone(ok)
    \/ ProcessCancel
    \/ ProcessPause
    \/ ProcessCloseAudio
    \/ ProcessOther
    \/ ProcessExit
    \/ ThreadExit

\* a client starts one of the public methods
ClientCall(c) ==
    \/ Play(c)
    \/ \E t \in Times : LockSeek(c, t)
    \/ LockEnqueueSong(c)
    \/ LockCancel(c)
    \/ LockStop(c)
    \/ LockUpdateAudio(c)
    \/ Kill(c)
    \/ LockPause(c)
    \/ \E f \in BOOLEAN : LockSetPause(c, f)
    \/ \E b \in BOOLEAN : LockSetBorderPause(c, b)
    \/ LockGetStatus(c)
    \/ LockClearError(c)

\* a client goes on inside the method it has started
ClientStep(c) ==
    \/ SynchronousCommand(c)
    \/ WaitCommandLocked(c)
    \/ SeekLocked(c)
    \/ SeekLockedIssue(c)
    \/ SeekLockedResult(c)
    \/ PlayUnpause(c)
    \/ LockGetStatusRead(c)
    \/ Unlock(c)
    \/ Rethrow(c)
    \/ AfterUnlock(c)
    \/ Join(c)

Next ==
    \/ ClientCall("main")
    \/ ClientStep("main")
    \/ PlayerStep
    \/ ChunksConsumed
    \/ SpuriousWakeup

Spec == Init /\ [][Next]_vars

\* the same program, with the history variables recorded
SpecHist == InitHist /\ [][Next]_vars

\* the player thread and a client inside a call are scheduled fairly; a
\* spurious wakeup, an output's signal and the start of a call are not
FairSpec == Spec /\ WF_vars(PlayerStep) /\ WF_vars(ClientStep("main"))

\* a second thread calls ApplyEnabled, which runs LockUpdateAudio, or
\* LockGetStatus, and goes on inside its call
OtherThreadStep(c) ==
    \/ LockUpdateAudio(c)
    \/ LockGetStatus(c)
    \/ SynchronousCommand(c)
    \/ WaitCommandLocked(c)
    \/ LockGetStatusRead(c)
    \/ Unlock(c)

\* the calls of the main client that send a command or arm the border pause
MainCall(c) ==
    \/ Play(c)
    \/ \E t \in Times : LockSeek(c, t)
    \/ LockEnqueueSong(c)
    \/ LockCancel(c)
    \/ LockStop(c)
    \/ Kill(c)
    \/ LockPause(c)
    \/ \E b \in BOOLEAN : LockSetBorderPause(c, b)

\* the main client makes its calls while the second thread makes its own
TwoNext ==
    \/ MainCall("main")
    \/ ClientStep("main")
    \/ OtherThreadStep("aux")
    \/ PlayerStep
    \/ ChunksConsumed
    \/ SpuriousWakeup

\* the player thread with two threads that call synchronous-command methods
SpecTwo == Init /\ [][TwoNext]_vars

(***************************************************************************)
(* The music pipe and the output sources.  The decoder takes a chunk from  *)
(* the buffer, fills it and appends it to the pipe.  Every source reads    *)
(* the pipe through its own SharedPipeConsumer (AudioOutputSource::pipe,   *)
(* bound by Open to a const MusicPipe): Get() hands out the chunk after    *)
(* the consumer's position and leaves it in the pipe, Consume() marks it.  *)
(* The owner of the pipe shifts the head chunk back to the buffer once     *)
(* every open source has consumed it.                                      *)
(***************************************************************************)
\* what a step of the decoder, the pipe or a source leaves alone
ControlFrame == UNCHANGED <<controlVars, decoderVars, filterVars>>

PipeSeqs == {music_pipe[i].seq : i \in DOMAIN music_pipe}
PipeIds == {music_pipe[i].id : i \in DOMAIN music_pipe}

\* the chunk that was enqueued as the n-th, if the pipe still holds it
PipeChunk(n) ==
    IF n \in PipeSeqs
    THEN (CHOOSE i \in DOMAIN music_pipe : music_pipe[i].seq = n)
    ELSE 0

PipeChunkId(n) == IF PipeChunk(n) = 0 THEN NoChunk ELSE music_pipe[PipeChunk(n)].id

\* the decoder attaches the tag snapshot to the first chunk it enqueues
ChunkHasTag(n) == n = 1

\* the player starts the decoder on a song
DecoderStart ==
    /\ ~decoding
    /\ decoding' = TRUE
    /\ dropped' = FALSE
    /\ UNCHANGED <<buffer_free, dc_chunk, music_pipe, pushed, is_open, current_chunk,
                   pending_tag, pending_data, sp_chunk, sp_consumed, src_pc, delivered,
                   fill_ret>>
    /\ ControlFrame

\* buffer.allocate(): the decoder takes a chunk from the free list
DecoderAllocate ==
    /\ decoding
    /\ dc_chunk = NoChunk
    /\ pushed < MaxPush
    /\ buffer_free # {}
    /\ dc_chunk' = CHOOSE k \in buffer_free : \A j \in buffer_free : k <= j
    /\ buffer_free' = buffer_free \ {dc_chunk'}
    /\ UNCHANGED <<music_pipe, pushed, decoding, is_open, current_chunk, pending_tag,
                   pending_data, sp_chunk, sp_consumed, src_pc, delivered, dropped, fill_ret>>
    /\ ControlFrame

\* pipe.push(chunk): the decoder enqueues the chunk it has filled
DecoderPush ==
    /\ dc_chunk # NoChunk
    /\ music_pipe' = Append(music_pipe, [id |-> dc_chunk, seq |-> pushed + 1])
    /\ pushed' = pushed + 1
    /\ dc_chunk' = NoChunk
    /\ UNCHANGED <<buffer_free, decoding, is_open, current_chunk, pending_tag,
                   pending_data, sp_chunk, sp_consumed, src_pc, delivered, dropped, fill_ret>>
    /\ ControlFrame

\* SharedPipeConsumer::Get(): the enqueue number of the chunk it returns, 0
\* for nullptr, given whether the chunk at the position has been consumed
PipeGet(s, consumed) ==
    IF sp_pipe[s] # ThePipe
    THEN 0
    ELSE IF sp_chunk[s] = 0
    THEN IF music_pipe = <<>> THEN 0 ELSE Head(music_pipe).seq
    ELSE IF ~consumed
         THEN sp_chunk[s]
         ELSE IF sp_chunk[s] + 1 \in PipeSeqs THEN sp_chunk[s] + 1 ELSE 0

\* SharedPipeConsumer::IsConsumed(chunk) for the n-th chunk
IsConsumed(s, n) ==
    /\ sp_chunk[s] # 0
    /\ \/ sp_chunk[s] > n
       \/ sp_chunk[s] = n /\ sp_consumed[s]

\* the output thread starts: it takes the mutex of its output and holds it
\* from then on, except where a callee releases it
OutputTask(s) ==
    /\ src_pc[s] = "off"
    /\ out_mutex[s] = NoThread
    /\ src_pc' = [src_pc EXCEPT ![s] = "idle"]
    /\ out_mutex' = [out_mutex EXCEPT ![s] = "output"]
    /\ UNCHANGED <<buffer_free, dc_chunk, music_pipe, pushed, decoding, is_open,
                   current_chunk, pending_tag, pending_data, sp_chunk, sp_consumed,
                   delivered, dropped, fill_ret>>
    /\ UNCHANGED <<in_audio_format, sp_pipe, filter_instance,
                   replay_gain_filter_instance, other_replay_gain_filter_instance,
                   replay_gain_serial, other_replay_gain_serial, open_calls, fc, skipped,
                   consumes>>
    /\ UNCHANGED <<controlVars, decoderVars>>

\* Open that rebuilds the filters on every call
Open_Rebuild(s, audio_format, pipe_, rg, org, ok) ==
    /\ src_pc[s] = "idle"
    /\ audio_format \in Formats
    /\ LET init == ~is_open[s] \/ pipe_ # sp_pipe[s]
           close == filter_instance[s] # NoFilter
           open == TRUE
           threw == open /\ ~ok
       IN  /\ IF init
              THEN /\ sp_pipe' = [sp_pipe EXCEPT ![s] = pipe_]
                   /\ sp_chunk' = [sp_chunk EXCEPT ![s] = 0]
                   /\ sp_consumed' = [sp_consumed EXCEPT ![s] = FALSE]
              ELSE UNCHANGED <<sp_pipe, sp_chunk, sp_consumed>>
           /\ filter_instance' = [filter_instance EXCEPT
                  ![s] = IF threw THEN NoFilter ELSE audio_format]
           /\ replay_gain_filter_instance' = [replay_gain_filter_instance EXCEPT
                  ![s] = IF threw \/ ~rg THEN NoReplayGainFilter ELSE NewReplayGainFilter]
           /\ other_replay_gain_filter_instance' =
                  [other_replay_gain_filter_instance EXCEPT
                  ![s] = IF threw \/ ~org THEN NoReplayGainFilter ELSE NewReplayGainFilter]
           /\ replay_gain_serial' = [replay_gain_serial EXCEPT
                  ![s] = IF open /\ rg THEN 0 ELSE @]
           /\ other_replay_gain_serial' = [other_replay_gain_serial EXCEPT
                  ![s] = IF open /\ org THEN 0 ELSE @]
           /\ IF threw
              THEN UNCHANGED <<in_audio_format, is_open>>
              ELSE /\ in_audio_format' = [in_audio_format EXCEPT ![s] = audio_format]
                   /\ is_open' = [is_open EXCEPT ![s] = TRUE]
           /\ open_calls' = [open_calls EXCEPT
                  ![s] = [audio_format |-> audio_format, pipe |-> pipe_,
                          calls |-> (IF init THEN {"Init"} ELSE {})
                                    \cup (IF close THEN {"CloseFilter"} ELSE {})
                                    \cup (IF open THEN {"OpenFilter"} ELSE {})
                                    \cup (IF threw THEN {"threw"} ELSE {})]]
    /\ UNCHANGED <<buffer_free, dc_chunk, music_pipe, pushed, decoding, current_chunk,
                   pending_tag, pending_data, src_pc, delivered, dropped, fill_ret>>
    /\ UNCHANGED <<out_mutex, fc, skipped,
                   consumes>>
    /\ UNCHANGED <<controlVars, decoderVars>>

\* AudioOutputSource::Open with OpenFilter and CloseFilter: pipe.Init(_pipe)
\* unless already open on this pipe; CloseFilter if the format differs from
\* the one the filters were opened with; OpenFilter if there is no filter.
\* rg and org tell whether the caller prepared the two replay gain filters,
\* ok whether prepared_filter->Open succeeds.  When it throws, OpenFilter
\* closes what it has opened and Open leaves in_audio_format as it was.
Open(s, audio_format, pipe_, rg, org, ok) ==
    /\ src_pc[s] = "idle"
    /\ audio_format \in Formats
    /\ LET init == ~is_open[s] \/ pipe_ # sp_pipe[s]
           close == filter_instance[s] # NoFilter /\ audio_format # in_audio_format[s]
           open == close \/ filter_instance[s] = NoFilter
           threw == open /\ ~ok
       IN  /\ IF init
              THEN /\ sp_pipe' = [sp_pipe EXCEPT ![s] = pipe_]
                   /\ sp_chunk' = [sp_chunk EXCEPT ![s] = 0]
                   /\ sp_consumed' = [sp_consumed EXCEPT ![s] = FALSE]
              ELSE UNCHANGED <<sp_pipe, sp_chunk, sp_consumed>>
           /\ IF open
              THEN /\ filter_instance' = [filter_instance EXCEPT
                          ![s] = IF threw THEN NoFilter ELSE audio_format]
                   /\ replay_gain_filter_instance' = [replay_gain_filter_instance EXCEPT
                          ![s] = IF threw \/ ~rg THEN NoReplayGainFilter
                                 ELSE NewReplayGainFilter]
                   /\ other_replay_gain_filter_instance' =
                          [other_replay_gain_filter_instance EXCEPT
                          ![s] = IF threw \/ ~org THEN NoReplayGainFilter
                                 ELSE NewReplayGainFilter]
                   /\ replay_gain_serial' = [replay_gain_serial EXCEPT
                          ![s] = IF rg THEN 0 ELSE @]
                   /\ other_replay_gain_serial' = [other_replay_gain_serial EXCEPT
                          ![s] = IF org THEN 0 ELSE @]
              ELSE UNCHANGED <<filter_instance, replay_gain_filter_instance,
                               other_replay_gain_filter_instance, replay_gain_serial,
                               other_replay_gain_serial>>
           /\ IF threw
              THEN UNCHANGED <<in_audio_format, is_open>>
              ELSE /\ in_audio_format' = [in_audio_format EXCEPT ![s] = audio_format]
                   /\ is_open' = [is_open EXCEPT ![s] = TRUE]
           /\ open_calls' = [open_calls EXCEPT
                  ![s] = [audio_format |-> audio_format, pipe |-> pipe_,
                          calls |-> (IF init THEN {"Init"} ELSE {})
                                    \cup (IF close THEN {"CloseFilter"} ELSE {})
                                    \cup (IF open THEN {"OpenFilter"} ELSE {})
                                    \cup (IF threw THEN {"threw"} ELSE {})]]
    /\ UNCHANGED <<buffer_free, dc_chunk, music_pipe, pushed, decoding, current_chunk,
                   pending_tag, pending_data, src_pc, delivered, dropped, fill_ret>>
    /\ UNCHANGED <<out_mutex, fc, skipped,
                   consumes>>
    /\ UNCHANGED <<controlVars, decoderVars>>

\* the player opens an output that is closed: on its pipe, with a format, no
\* replay gain filters and a filter chain that opens
OpenOutput(s) ==
    /\ ~is_open[s]
    /\ Open(s, "44100:16:2", ThePipe, FALSE, FALSE, TRUE)

\* the record of a source after pipe.Consume(chunk), where NoChunk stands for
\* a call that dereferences current_chunk == nullptr
PipeConsumed(k, chunk) ==
    IF ~k.on THEN k
    ELSE IF chunk = NoChunk
         THEN [k EXCEPT !.none = TRUE]
         ELSE [k EXCEPT !.calls = 1, !.twice = @ \/ k.calls = 1]

\* and after pipe.Get() has returned a chunk
PipeGot(k) == IF k.on THEN [k EXCEPT !.calls = 0] ELSE k

\* Fill that hands current_chunk to pipe.Consume without testing it
Fill_ConsumeNull(s) ==
    /\ is_open[s]
    /\ src_pc[s] = "idle"
    /\ LET drained == ~pending_tag[s] /\ pending_data[s] = 0
           held == IF drained THEN NoChunk ELSE current_chunk[s]
           consumed == IF drained THEN TRUE ELSE sp_consumed[s]
           next == PipeGet(s, consumed)
           k == IF drained THEN PipeConsumed(consumes[s], current_chunk[s])
                ELSE consumes[s]
       IN  IF held # NoChunk
           THEN /\ fill_ret' = [fill_ret EXCEPT ![s] = "true"]
                /\ UNCHANGED <<current_chunk, sp_chunk, sp_consumed, pending_tag, src_pc,
                               out_mutex, consumes>>
           ELSE IF next = 0
                THEN /\ fill_ret' = [fill_ret EXCEPT ![s] = "false"]
                     /\ current_chunk' = [current_chunk EXCEPT ![s] = NoChunk]
                     /\ sp_consumed' = [sp_consumed EXCEPT ![s] = consumed]
                     /\ consumes' = [consumes EXCEPT ![s] = k]
                     /\ UNCHANGED <<sp_chunk, pending_tag, src_pc, out_mutex>>
                ELSE /\ fill_ret' = [fill_ret EXCEPT ![s] = "none"]
                     /\ current_chunk' = [current_chunk EXCEPT ![s] = PipeChunkId(next)]
                     /\ sp_chunk' = [sp_chunk EXCEPT ![s] = next]
                     /\ sp_consumed' = [sp_consumed EXCEPT ![s] = FALSE]
                     /\ consumes' = [consumes EXCEPT ![s] = PipeGot(k)]
                     /\ pending_tag' = [pending_tag EXCEPT ![s] = ChunkHasTag(next)]
                     /\ src_pc' = [src_pc EXCEPT ![s] = "filter"]
                     /\ out_mutex' = [out_mutex EXCEPT ![s] = NoThread]
    /\ UNCHANGED <<buffer_free, dc_chunk, music_pipe, pushed, decoding, is_open,
                   pending_data, delivered, dropped>>
    /\ UNCHANGED <<in_audio_format, sp_pipe, filter_instance,
                   replay_gain_filter_instance, other_replay_gain_filter_instance,
                   replay_gain_serial, other_replay_gain_serial, open_calls, fc, skipped>>
    /\ UNCHANGED <<controlVars, decoderVars>>

\* Fill that releases the chunk it holds without looking at what is pending
Fill_ReleasePending(s) ==
    /\ is_open[s]
    /\ src_pc[s] = "idle"
    /\ LET drained == current_chunk[s] # NoChunk
           held == IF drained THEN NoChunk ELSE current_chunk[s]
           consumed == IF drained THEN TRUE ELSE sp_consumed[s]
           next == PipeGet(s, consumed)
           k == IF drained THEN PipeConsumed(consumes[s], current_chunk[s])
                ELSE consumes[s]
       IN  IF held # NoChunk
           THEN /\ fill_ret' = [fill_ret EXCEPT ![s] = "true"]
                /\ UNCHANGED <<current_chunk, sp_chunk, sp_consumed, pending_tag, src_pc,
                               out_mutex, consumes>>
           ELSE IF next = 0
                THEN /\ fill_ret' = [fill_ret EXCEPT ![s] = "false"]
                     /\ current_chunk' = [current_chunk EXCEPT ![s] = NoChunk]
                     /\ sp_consumed' = [sp_consumed EXCEPT ![s] = consumed]
                     /\ consumes' = [consumes EXCEPT ![s] = k]
                     /\ UNCHANGED <<sp_chunk, pending_tag, src_pc, out_mutex>>
                ELSE /\ fill_ret' = [fill_ret EXCEPT ![s] = "none"]
                     /\ current_chunk' = [current_chunk EXCEPT ![s] = PipeChunkId(next)]
                     /\ sp_chunk' = [sp_chunk EXCEPT ![s] = next]
                     /\ sp_consumed' = [sp_consumed EXCEPT ![s] = FALSE]
                     /\ consumes' = [consumes EXCEPT ![s] = PipeGot(k)]
                     /\ pending_tag' = [pending_tag EXCEPT ![s] = ChunkHasTag(next)]
                     /\ src_pc' = [src_pc EXCEPT ![s] = "filter"]
                     /\ out_mutex' = [out_mutex EXCEPT ![s] = NoThread]
    /\ UNCHANGED <<buffer_free, dc_chunk, music_pipe, pushed, decoding, is_open,
                   pending_data, delivered, dropped>>
    /\ UNCHANGED <<in_audio_format, sp_pipe, filter_instance,
                   replay_gain_filter_instance, other_replay_gain_filter_instance,
                   replay_gain_serial, other_replay_gain_serial, open_calls, fc, skipped>>
    /\ UNCHANGED <<controlVars, decoderVars>>

\* AudioOutputSource::Fill up to the ScopeUnlock: Consume the drained chunk,
\* return true while a chunk is held, Get the next one, return false if
\* there is none, take its tag and release the mutex for FilterChunk
Fill(s) ==
    /\ is_open[s]
    /\ src_pc[s] = "idle"
    /\ LET drained == /\ current_chunk[s] # NoChunk
                      /\ ~pending_tag[s]
                      /\ pending_data[s] = 0
           held == IF drained THEN NoChunk ELSE current_chunk[s]
           consumed == IF drained THEN TRUE ELSE sp_consumed[s]
           next == PipeGet(s, consumed)
           k == IF drained THEN PipeConsumed(consumes[s], current_chunk[s])
                ELSE consumes[s]
       IN  IF held # NoChunk
           THEN /\ fill_ret' = [fill_ret EXCEPT ![s] = "true"]
                /\ UNCHANGED <<current_chunk, sp_chunk, sp_consumed, pending_tag, src_pc,
                               out_mutex, consumes>>
           ELSE IF next = 0
                THEN /\ fill_ret' = [fill_ret EXCEPT ![s] = "false"]
                     /\ current_chunk' = [current_chunk EXCEPT ![s] = NoChunk]
                     /\ sp_consumed' = [sp_consumed EXCEPT ![s] = consumed]
                     /\ consumes' = [consumes EXCEPT ![s] = k]
                     /\ UNCHANGED <<sp_chunk, pending_tag, src_pc, out_mutex>>
                ELSE /\ fill_ret' = [fill_ret EXCEPT ![s] = "none"]
                     /\ current_chunk' = [current_chunk EXCEPT ![s] = PipeChunkId(next)]
                     /\ sp_chunk' = [sp_chunk EXCEPT ![s] = next]
                     /\ sp_consumed' = [sp_consumed EXCEPT ![s] = FALSE]
                     /\ consumes' = [consumes EXCEPT ![s] = PipeGot(k)]
                     /\ pending_tag' = [pending_tag EXCEPT ![s] = ChunkHasTag(next)]
                     /\ src_pc' = [src_pc EXCEPT ![s] = "filter"]
                     /\ out_mutex' = [out_mutex EXCEPT ![s] = NoThread]
    /\ UNCHANGED <<buffer_free, dc_chunk, music_pipe, pushed, decoding, is_open,
                   pending_data, delivered, dropped>>
    /\ UNCHANGED <<in_audio_format, sp_pipe, filter_instance,
                   replay_gain_filter_instance, other_replay_gain_filter_instance,
                   replay_gain_serial, other_replay_gain_serial, open_calls, fc, skipped>>
    /\ UNCHANGED <<controlVars, decoderVars>>

\* GetChunkData that keeps a chunk with the IGNORE serial away from the filter
GetChunkData_Bypass(length, serial, replay_gain_filter, stored) ==
    IF length # 0 /\ replay_gain_filter.open /\ serial # IGNORE_REPLAY_GAIN
    THEN LET update == serial # stored
         IN  [size |-> length, rg |-> TRUE,
              filter |-> IF update
                         THEN [replay_gain_filter EXCEPT !.info = serial]
                         ELSE replay_gain_filter,
              serial |-> IF update THEN serial ELSE stored]
    ELSE [size |-> length, rg |-> FALSE, filter |-> replay_gain_filter,
          serial |-> stored]

\* AudioOutputSource::GetChunkData for a chunk of the given length and
\* serial, the replay gain filter and the serial stored for it: the size of
\* the data, whether they went through the filter's FilterPCM, and the
\* filter and the stored serial afterwards.  set_info is given the chunk's
\* ReplayGainInfo, or nullptr when the serial is 0.
GetChunkData(length, serial, replay_gain_filter, stored) ==
    IF length # 0 /\ replay_gain_filter.open
    THEN LET update == serial # stored /\ serial # IGNORE_REPLAY_GAIN
         IN  [size |-> length, rg |-> TRUE,
              filter |-> IF update
                         THEN [replay_gain_filter EXCEPT !.info = serial]
                         ELSE replay_gain_filter,
              serial |-> IF update THEN serial ELSE stored]
    ELSE [size |-> length, rg |-> FALSE, filter |-> replay_gain_filter,
          serial |-> stored]

\* FilterChunk whose mixed buffer is as long as the shorter of the two
FilterChunk_Truncate(s, c) ==
    LET d == GetChunkData(c.length, c.replay_gain_serial,
                          replay_gain_filter_instance[s], replay_gain_serial[s])
        o == GetChunkData(c.other_length, c.other_serial,
                          other_replay_gain_filter_instance[s],
                          other_replay_gain_serial[s])
        alone == [threw |-> FALSE, size |-> d.size, rg |-> d.rg, other_rg |-> FALSE,
                  mixed |-> FALSE, mixed_len |-> 0, chain |-> FALSE, chain_len |-> 0,
                  filter |-> d.filter, serial |-> d.serial,
                  other_filter |-> other_replay_gain_filter_instance[s],
                  other_serial |-> other_replay_gain_serial[s]]
        both == [alone EXCEPT !.other_rg = o.rg, !.other_filter = o.filter,
                              !.other_serial = o.serial]
        mixed == [both EXCEPT !.mixed = TRUE,
                              !.mixed_len = IF d.size > o.size THEN o.size ELSE d.size,
                              !.size = IF d.size > o.size THEN o.size ELSE d.size]
        Chain(r) ==
            IF filter_instance[s] = NoFilter
            THEN [r EXCEPT !.threw = ~c.filter_ok, !.size = c.garbage,
                           !.chain_len = r.size]
            ELSE IF c.filter_ok
                 THEN [r EXCEPT !.chain = TRUE, !.chain_len = r.size]
                 ELSE [r EXCEPT !.threw = TRUE, !.chain_len = r.size]
    IN  IF d.size = 0 THEN alone
        ELSE IF ~c.other THEN Chain(alone)
        ELSE IF o.size = 0 THEN both
        ELSE IF ~Mixable(in_audio_format[s]) THEN [both EXCEPT !.threw = TRUE]
        ELSE Chain(mixed)

\* FilterChunk that goes on without the companion when pcm_mix fails
FilterChunk_SkipFade(s, c) ==
    LET d == GetChunkData(c.length, c.replay_gain_serial,
                          replay_gain_filter_instance[s], replay_gain_serial[s])
        o == GetChunkData(c.other_length, c.other_serial,
                          other_replay_gain_filter_instance[s],
                          other_replay_gain_serial[s])
        alone == [threw |-> FALSE, size |-> d.size, rg |-> d.rg, other_rg |-> FALSE,
                  mixed |-> FALSE, mixed_len |-> 0, chain |-> FALSE, chain_len |-> 0,
                  filter |-> d.filter, serial |-> d.serial,
                  other_filter |-> other_replay_gain_filter_instance[s],
                  other_serial |-> other_replay_gain_serial[s]]
        both == [alone EXCEPT !.other_rg = o.rg, !.other_filter = o.filter,
                              !.other_serial = o.serial]
        mixed == [both EXCEPT !.mixed = TRUE,
                              !.mixed_len = IF d.size > o.size THEN o.size ELSE d.size,
                              !.size = o.size]
        Chain(r) ==
            IF filter_instance[s] = NoFilter
            THEN [r EXCEPT !.threw = ~c.filter_ok, !.size = c.garbage,
                           !.chain_len = r.size]
            ELSE IF c.filter_ok
                 THEN [r EXCEPT !.chain = TRUE, !.chain_len = r.size]
                 ELSE [r EXCEPT !.threw = TRUE, !.chain_len = r.size]
    IN  IF d.size = 0 THEN alone
        ELSE IF ~c.other THEN Chain(alone)
        ELSE IF o.size = 0 THEN both
        ELSE IF ~Mixable(in_audio_format[s]) THEN Chain(both)
        ELSE Chain(mixed)

\* AudioOutputSource::FilterChunk on a chunk c: the data of the chunk; with a
\* companion, its data too, and unless they are empty the companion's
\* buffer with the chunk mixed into its first bytes, or the exception when
\* pcm_mix cannot mix the format; then filter_instance->FilterPCM.  The
\* result tells what was thrown or returned and which stages the returned
\* data went through.  A call through a null filter_instance is undefined:
\* it throws or returns a buffer of any size.
FilterChunk(s, c) ==
    LET d == GetChunkData(c.length, c.replay_gain_serial,
                          replay_gain_filter_instance[s], replay_gain_serial[s])
        o == GetChunkData(c.other_length, c.other_serial,
                          other_replay_gain_filter_instance[s],
                          other_replay_gain_serial[s])
        alone == [threw |-> FALSE, size |-> d.size, rg |-> d.rg, other_rg |-> FALSE,
                  mixed |-> FALSE, mixed_len |-> 0, chain |-> FALSE, chain_len |-> 0,
                  filter |-> d.filter, serial |-> d.serial,
                  other_filter |-> other_replay_gain_filter_instance[s],
                  other_serial |-> other_replay_gain_serial[s]]
        both == [alone EXCEPT !.other_rg = o.rg, !.other_filter = o.filter,
                              !.other_serial = o.serial]
        mixed == [both EXCEPT !.mixed = TRUE,
                              !.mixed_len = IF d.size > o.size THEN o.size ELSE d.size,
                              !.size = o.size]
        Chain(r) ==
            IF filter_instance[s] = NoFilter
            THEN [r EXCEPT !.threw = ~c.filter_ok, !.size = c.garbage,
                           !.chain_len = r.size]
            ELSE IF c.filter_ok
                 THEN [r EXCEPT !.chain = TRUE, !.chain_len = r.size]
                 ELSE [r EXCEPT !.threw = TRUE, !.chain_len = r.size]
    IN  IF d.size = 0 THEN alone
        ELSE IF ~c.other THEN Chain(alone)
        ELSE IF o.size = 0 THEN both
        ELSE IF ~Mixable(in_audio_format[s]) THEN [both EXCEPT !.threw = TRUE]
        ELSE Chain(mixed)

\* what is recorded of a FilterChunk: the chunk, and the result without the
\* filters and serials, which are in the state
Observed(c, r) ==
    [ran |-> TRUE, chunk |-> c, threw |-> r.threw, size |-> r.size, rg |-> r.rg,
     other_rg |-> r.other_rg, mixed |-> r.mixed, mixed_len |-> r.mixed_len,
     chain |-> r.chain, chain_len |-> r.chain_len]

\* Fill whose catch block does not reset current_chunk
FillFilter_KeepChunk(s, c) ==
    /\ src_pc[s] = "filter"
    /\ out_mutex[s] = NoThread
    /\ src_pc' = [src_pc EXCEPT ![s] = "idle"]
    /\ out_mutex' = [out_mutex EXCEPT ![s] = "output"]
    /\ \E r \in {FilterChunk(s, c)} :
           /\ replay_gain_filter_instance' =
                  [replay_gain_filter_instance EXCEPT ![s] = r.filter]
           /\ replay_gain_serial' = [replay_gain_serial EXCEPT ![s] = r.serial]
           /\ other_replay_gain_filter_instance' =
                  [other_replay_gain_filter_instance EXCEPT ![s] = r.other_filter]
           /\ other_replay_gain_serial' =
                  [other_replay_gain_serial EXCEPT ![s] = r.other_serial]
           /\ fc' = IF track THEN [fc EXCEPT ![s] = Observed(c, r)] ELSE fc
           /\ IF ~r.threw
              THEN /\ pending_data' = [pending_data EXCEPT ![s] = r.size]
                   /\ skipped' = IF track THEN [skipped EXCEPT ![s] = 0] ELSE skipped
                   /\ delivered' = [delivered EXCEPT ![s] = sp_chunk[s]]
                   /\ fill_ret' = [fill_ret EXCEPT ![s] = "true"]
                   /\ UNCHANGED <<current_chunk, dropped>>
              ELSE /\ UNCHANGED <<current_chunk, dropped>>
                   /\ fill_ret' = [fill_ret EXCEPT ![s] = "threw"]
                   /\ UNCHANGED <<pending_data, skipped, delivered>>
    /\ UNCHANGED <<buffer_free, dc_chunk, music_pipe, pushed, decoding, is_open,
                   pending_tag, sp_chunk, sp_consumed>>
    /\ UNCHANGED <<in_audio_format, sp_pipe, filter_instance, open_calls, consumes>>
    /\ UNCHANGED <<controlVars, decoderVars>>

\* Fill that goes on without taking the mutex again
FillFilter_NoRelock(s, c) ==
    /\ src_pc[s] = "filter"
    /\ src_pc' = [src_pc EXCEPT ![s] = "idle"]
    /\ UNCHANGED out_mutex
    /\ \E r \in {FilterChunk(s, c)} :
           /\ replay_gain_filter_instance' =
                  [replay_gain_filter_instance EXCEPT ![s] = r.filter]
           /\ replay_gain_serial' = [replay_gain_serial EXCEPT ![s] = r.serial]
           /\ other_replay_gain_filter_instance' =
                  [other_replay_gain_filter_instance EXCEPT ![s] = r.other_filter]
           /\ other_replay_gain_serial' =
                  [other_replay_gain_serial EXCEPT ![s] = r.other_serial]
           /\ fc' = IF track THEN [fc EXCEPT ![s] = Observed(c, r)] ELSE fc
           /\ IF ~r.threw
              THEN /\ pending_data' = [pending_data EXCEPT ![s] = r.size]
                   /\ skipped' = IF track THEN [skipped EXCEPT ![s] = 0] ELSE skipped
                   /\ delivered' = [delivered EXCEPT ![s] = sp_chunk[s]]
                   /\ fill_ret' = [fill_ret EXCEPT ![s] = "true"]
                   /\ UNCHANGED <<current_chunk, dropped>>
              ELSE /\ current_chunk' = [current_chunk EXCEPT ![s] = NoChunk]
                   /\ dropped' = TRUE
                   /\ fill_ret' = [fill_ret EXCEPT ![s] = "threw"]
                   /\ UNCHANGED <<pending_data, skipped, delivered>>
    /\ UNCHANGED <<buffer_free, dc_chunk, music_pipe, pushed, decoding, is_open,
                   pending_tag, sp_chunk, sp_consumed>>
    /\ UNCHANGED <<in_audio_format, sp_pipe, filter_instance, open_calls, consumes>>
    /\ UNCHANGED <<controlVars, decoderVars>>

\* AudioOutputSource::Fill from FilterChunk on: the mutex is taken again,
\* the filtered data become pending_data, or the exception drops
\* current_chunk and leaves Fill
FillFilter(s, c) ==
    /\ src_pc[s] = "filter"
    /\ out_mutex[s] = NoThread
    /\ src_pc' = [src_pc EXCEPT ![s] = "idle"]
    /\ out_mutex' = [out_mutex EXCEPT ![s] = "output"]
    /\ \E r \in {FilterChunk(s, c)} :
           /\ replay_gain_filter_instance' =
                  [replay_gain_filter_instance EXCEPT ![s] = r.filter]
           /\ replay_gain_serial' = [replay_gain_serial EXCEPT ![s] = r.serial]
           /\ other_replay_gain_filter_instance' =
                  [other_replay_gain_filter_instance EXCEPT ![s] = r.other_filter]
           /\ other_replay_gain_serial' =
                  [other_replay_gain_serial EXCEPT ![s] = r.other_serial]
           /\ fc' = IF track THEN [fc EXCEPT ![s] = Observed(c, r)] ELSE fc
           /\ IF ~r.threw
              THEN /\ pending_data' = [pending_data EXCEPT ![s] = r.size]
                   /\ skipped' = IF track THEN [skipped EXCEPT ![s] = 0] ELSE skipped
                   /\ delivered' = [delivered EXCEPT ![s] = sp_chunk[s]]
                   /\ fill_ret' = [fill_ret EXCEPT ![s] = "true"]
                   /\ UNCHANGED <<current_chunk, dropped>>
              ELSE /\ current_chunk' = [current_chunk EXCEPT ![s] = NoChunk]
                   /\ dropped' = TRUE
                   /\ fill_ret' = [fill_ret EXCEPT ![s] = "threw"]
                   /\ UNCHANGED <<pending_data, skipped, delivered>>
    /\ UNCHANGED <<buffer_free, dc_chunk, music_pipe, pushed, decoding, is_open,
                   pending_tag, sp_chunk, sp_consumed>>
    /\ UNCHANGED <<in_audio_format, sp_pipe, filter_instance, open_calls, consumes>>
    /\ UNCHANGED <<controlVars, decoderVars>>

\* the exception that left Fill has failed the output, and the player
\* thread stores the failure: LockSetOutputError
OutputFailed(s) ==
    /\ fill_ret[s] = "threw"
    /\ mutex = NoThread
    /\ SetOutputError("output_failure")
    /\ fill_ret' = [fill_ret EXCEPT ![s] = "reported"]
    /\ UNCHANGED <<mutex, cond, client_cond, command, next_song, seek_time,
                   border_pause, occupied, thread_defined, bit_rate>>
    /\ UNCHANGED <<clientVars, playerVars, decoderVars>>
    /\ UNCHANGED <<buffer_free, dc_chunk, music_pipe, pushed, decoding, is_open,
                   current_chunk, pending_tag, pending_data, sp_chunk, sp_consumed,
                   src_pc, delivered, dropped>>
    /\ UNCHANGED filterVars

\* AudioOutputSource::ReadTag: the output thread takes the pending tag
ReadTag(s) ==
    /\ src_pc[s] = "idle"
    /\ current_chunk[s] # NoChunk
    /\ pending_tag[s]
    /\ pending_tag' = [pending_tag EXCEPT ![s] = FALSE]
    /\ UNCHANGED <<buffer_free, dc_chunk, music_pipe, pushed, decoding, is_open,
                   current_chunk, pending_data, sp_chunk, sp_consumed, src_pc,
                   delivered, dropped, fill_ret>>
    /\ ControlFrame

\* ConsumeData that gives the chunk back with data still pending
ConsumeData_Release(s, nbytes) ==
    /\ src_pc[s] = "idle"
    /\ current_chunk[s] # NoChunk
    /\ nbytes <= pending_data[s]
    /\ pending_data' = [pending_data EXCEPT ![s] = @ - nbytes]
    /\ skipped' = IF track THEN [skipped EXCEPT ![s] = @ + nbytes] ELSE skipped
    /\ sp_consumed' = [sp_consumed EXCEPT ![s] = TRUE]
    /\ current_chunk' = [current_chunk EXCEPT ![s] = NoChunk]
    /\ consumes' = [consumes EXCEPT ![s] = PipeConsumed(@, current_chunk[s])]
    /\ UNCHANGED <<buffer_free, dc_chunk, music_pipe, pushed, decoding, is_open,
                   pending_tag, sp_chunk, src_pc, delivered, dropped, fill_ret>>
    /\ UNCHANGED <<out_mutex, in_audio_format, sp_pipe, filter_instance,
                   replay_gain_filter_instance, other_replay_gain_filter_instance,
                   replay_gain_serial, other_replay_gain_serial, open_calls, fc>>
    /\ UNCHANGED <<controlVars, decoderVars>>

\* ConsumeData that forgets pipe.Consume
ConsumeData_NoConsume(s, nbytes) ==
    /\ src_pc[s] = "idle"
    /\ current_chunk[s] # NoChunk
    /\ nbytes <= pending_data[s]
    /\ pending_data' = [pending_data EXCEPT ![s] = @ - nbytes]
    /\ skipped' = IF track THEN [skipped EXCEPT ![s] = @ + nbytes] ELSE skipped
    /\ current_chunk' = [current_chunk EXCEPT
                           ![s] = IF pending_data'[s] = 0 THEN NoChunk ELSE @]
    /\ UNCHANGED consumes
    /\ UNCHANGED <<buffer_free, dc_chunk, music_pipe, pushed, decoding, is_open,
                   pending_tag, sp_chunk, sp_consumed, src_pc, delivered, dropped, fill_ret>>
    /\ UNCHANGED <<out_mutex, in_audio_format, sp_pipe, filter_instance,
                   replay_gain_filter_instance, other_replay_gain_filter_instance,
                   replay_gain_serial, other_replay_gain_serial, open_calls, fc>>
    /\ UNCHANGED <<controlVars, decoderVars>>

\* ConsumeData that hands the chunk to pipe.Consume and keeps current_chunk
ConsumeData_KeepChunk(s, nbytes) ==
    /\ src_pc[s] = "idle"
    /\ current_chunk[s] # NoChunk
    /\ nbytes <= pending_data[s]
    /\ pending_data' = [pending_data EXCEPT ![s] = @ - nbytes]
    /\ skipped' = IF track THEN [skipped EXCEPT ![s] = @ + nbytes] ELSE skipped
    /\ IF pending_data'[s] = 0
       THEN /\ sp_consumed' = [sp_consumed EXCEPT ![s] = TRUE]
            /\ consumes' = [consumes EXCEPT ![s] = PipeConsumed(@, current_chunk[s])]
       ELSE UNCHANGED <<sp_consumed, consumes>>
    /\ UNCHANGED <<buffer_free, dc_chunk, music_pipe, pushed, decoding, is_open,
                   current_chunk, pending_tag, sp_chunk, src_pc, delivered, dropped,
                   fill_ret>>
    /\ UNCHANGED <<out_mutex, in_audio_format, sp_pipe, filter_instance,
                   replay_gain_filter_instance, other_replay_gain_filter_instance,
                   replay_gain_serial, other_replay_gain_serial, open_calls, fc>>
    /\ UNCHANGED <<controlVars, decoderVars>>

\* AudioOutputSource::ConsumeData(nbytes), called by the output thread with
\* data it has played
ConsumeData(s, nbytes) ==
    /\ src_pc[s] = "idle"
    /\ current_chunk[s] # NoChunk
    /\ nbytes <= pending_data[s]
    /\ pending_data' = [pending_data EXCEPT ![s] = @ - nbytes]
    /\ skipped' = IF track THEN [skipped EXCEPT ![s] = @ + nbytes] ELSE skipped
    /\ IF pending_data'[s] = 0
       THEN /\ sp_consumed' = [sp_consumed EXCEPT ![s] = TRUE]
            /\ current_chunk' = [current_chunk EXCEPT ![s] = NoChunk]
            /\ consumes' = [consumes EXCEPT ![s] = PipeConsumed(@, current_chunk[s])]
       ELSE UNCHANGED <<sp_consumed, current_chunk, consumes>>
    /\ UNCHANGED <<buffer_free, dc_chunk, music_pipe, pushed, decoding, is_open,
                   pending_tag, sp_chunk, src_pc, delivered, dropped, fill_ret>>
    /\ UNCHANGED <<out_mutex, in_audio_format, sp_pipe, filter_instance,
                   replay_gain_filter_instance, other_replay_gain_filter_instance,
                   replay_gain_serial, other_replay_gain_serial, open_calls, fc>>
    /\ UNCHANGED <<controlVars, decoderVars>>

\* AudioOutputSource::ConsumeData(nbytes) called while current_chunk is
\* nullptr: when the skip empties pending_data, pipe.Consume is handed
\* *nullptr, which is undefined: SharedPipeConsumer::Consume sets its consumed
\* flag or not, and the build with assertions aborts
ConsumeDataNull(s, nbytes) ==
    /\ src_pc[s] = "idle"
    /\ current_chunk[s] = NoChunk
    /\ nbytes <= pending_data[s]
    /\ pending_data' = [pending_data EXCEPT ![s] = @ - nbytes]
    /\ skipped' = IF track THEN [skipped EXCEPT ![s] = @ + nbytes] ELSE skipped
    /\ IF pending_data'[s] = 0
       THEN /\ consumes' = [consumes EXCEPT ![s] =
                               [PipeConsumed(@, NoChunk) EXCEPT !.misuse = @ \/ consumes[s].on]]
            /\ \E set \in BOOLEAN :
                   sp_consumed' = [sp_consumed EXCEPT ![s] = @ \/ set]
            /\ \E aborts \in BOOLEAN :
                   src_pc' = [src_pc EXCEPT ![s] = IF aborts THEN "aborted" ELSE @]
       ELSE /\ consumes' = [consumes EXCEPT ![s].misuse = @ \/ consumes[s].on]
            /\ UNCHANGED <<sp_consumed, src_pc>>
    /\ UNCHANGED <<buffer_free, dc_chunk, music_pipe, pushed, decoding, is_open,
                   current_chunk, pending_tag, sp_chunk, delivered, dropped, fill_ret>>
    /\ UNCHANGED <<out_mutex, in_audio_format, sp_pipe, filter_instance,
                   replay_gain_filter_instance, other_replay_gain_filter_instance,
                   replay_gain_serial, other_replay_gain_serial, open_calls, fc>>
    /\ UNCHANGED <<controlVars, decoderVars>>

\* Cancel that keeps current_chunk
CancelSource_KeepChunk(s) ==
    /\ sp_chunk' = [sp_chunk EXCEPT ![s] = 0]
    /\ delivered' = [delivered EXCEPT ![s] = 0]
    /\ UNCHANGED <<current_chunk, dropped>>

\* the body of AudioOutputSource::Cancel: current_chunk = nullptr, pipe.Cancel()
CancelSource(s) ==
    /\ current_chunk' = [current_chunk EXCEPT ![s] = NoChunk]
    /\ sp_chunk' = [sp_chunk EXCEPT ![s] = 0]
    /\ delivered' = [delivered EXCEPT ![s] = 0]
    /\ dropped' = (dropped \/ current_chunk[s] # NoChunk)

\* AudioOutputSource::Cancel
Cancel(s) ==
    /\ is_open[s]
    /\ src_pc[s] = "idle"
    /\ CancelSource(s)
    /\ UNCHANGED <<buffer_free, dc_chunk, music_pipe, pushed, decoding, is_open,
                   pending_tag, pending_data, sp_consumed, src_pc, fill_ret>>
    /\ ControlFrame

\* AudioOutputSource::CloseFilter: the three filter instances are deleted
CloseFilter(s) ==
    /\ filter_instance' = [filter_instance EXCEPT ![s] = NoFilter]
    /\ replay_gain_filter_instance' =
           [replay_gain_filter_instance EXCEPT ![s] = NoReplayGainFilter]
    /\ other_replay_gain_filter_instance' =
           [other_replay_gain_filter_instance EXCEPT ![s] = NoReplayGainFilter]

\* AudioOutputSource::Close: in_audio_format.Clear(), Cancel(), CloseFilter()
Close(s) ==
    /\ is_open[s]
    /\ src_pc[s] = "idle"
    /\ is_open' = [is_open EXCEPT ![s] = FALSE]
    /\ in_audio_format' = [in_audio_format EXCEPT ![s] = NoFormat]
    /\ CancelSource(s)
    /\ CloseFilter(s)
    /\ UNCHANGED <<buffer_free, dc_chunk, music_pipe, pushed, decoding,
                   pending_tag, pending_data, sp_consumed, src_pc, fill_ret>>
    /\ UNCHANGED <<out_mutex, sp_pipe, replay_gain_serial, other_replay_gain_serial,
                   open_calls, fc, skipped,
                   consumes>>
    /\ UNCHANGED <<controlVars, decoderVars>>

\* the owner of the pipe returns the head chunk to the buffer once every
\* open source has consumed it
PipeShift ==
    /\ music_pipe # <<>>
    /\ \E s \in Sources : is_open[s] /\ sp_pipe[s] = ThePipe
    /\ \A s \in Sources :
          (is_open[s] /\ sp_pipe[s] = ThePipe) => IsConsumed(s, Head(music_pipe).seq)
    /\ buffer_free' = buffer_free \cup {Head(music_pipe).id}
    /\ music_pipe' = Tail(music_pipe)
    /\ UNCHANGED <<dc_chunk, pushed, decoding, is_open, current_chunk, pending_tag,
                   pending_data, sp_chunk, sp_consumed, src_pc, delivered, dropped, fill_ret>>
    /\ ControlFrame

\* playback stops: the outputs have been cancelled, the decoder gives its
\* chunk back and pipe.cancel() returns every chunk to the free list
StopPlayback ==
    /\ decoding
    /\ \A s \in Sources : sp_chunk[s] = 0 /\ src_pc[s] # "filter"
    /\ decoding' = FALSE
    /\ buffer_free' = buffer_free \cup PipeIds \cup ({dc_chunk} \ {NoChunk})
    /\ music_pipe' = <<>>
    /\ dc_chunk' = NoChunk
    /\ pushed' = 0
    /\ UNCHANGED <<is_open, current_chunk, pending_tag, pending_data, sp_chunk,
                   sp_consumed, src_pc, delivered, dropped, fill_ret>>
    /\ ControlFrame

\* an output whose chunks have no data or MaxData bytes, played at once
SourceStep(s) ==
    \/ OutputTask(s)
    \/ OpenOutput(s)
    \/ Fill(s)
    \/ \E ok \in BOOLEAN : \E n \in {0, MaxData} : FillFilter(s, PlainChunk(n, ok))
    \/ OutputFailed(s)
    \/ ReadTag(s)
    \/ pending_data[s] > 0 /\ ConsumeData(s, pending_data[s])
    \/ Cancel(s)
    \/ Close(s)

SourceNext ==
    \/ DecoderStart
    \/ DecoderAllocate
    \/ DecoderPush
    \/ \E s \in Sources : SourceStep(s)
    \/ PipeShift
    \/ StopPlayback

\* the decoder, the pipe and two output sources
SpecSource == Init /\ [][SourceNext]_vars

\* another thread (the player thread, a client) locks the mutex of the output
OtherLock(s) ==
    /\ out_mutex[s] = NoThread
    /\ out_mutex' = [out_mutex EXCEPT ![s] = "other"]
    /\ UNCHANGED <<in_audio_format, sp_pipe, filter_instance,
                   replay_gain_filter_instance, other_replay_gain_filter_instance,
                   replay_gain_serial, other_replay_gain_serial, open_calls, fc, skipped,
                   consumes>>
    /\ UNCHANGED <<controlVars, sourceVars, decoderVars>>

\* and unlocks it
OtherUnlock(s) ==
    /\ out_mutex[s] = "other"
    /\ out_mutex' = [out_mutex EXCEPT ![s] = NoThread]
    /\ UNCHANGED <<in_audio_format, sp_pipe, filter_instance,
                   replay_gain_filter_instance, other_replay_gain_filter_instance,
                   replay_gain_serial, other_replay_gain_serial, open_calls, fc, skipped,
                   consumes>>
    /\ UNCHANGED <<controlVars, sourceVars, decoderVars>>

\* one output whose chunks have data of any length, and whose mutex other
\* threads take when they can
OutputStep(s) ==
    \/ OutputTask(s)
    \/ OpenOutput(s)
    \/ Fill(s)
    \/ \E ok \in BOOLEAN : \E n \in 0..MaxBytes : FillFilter(s, PlainChunk(n, ok))
    \/ OtherLock(s)
    \/ OtherUnlock(s)
    \/ ReadTag(s)
    \/ \E n \in 1..MaxBytes : ConsumeData(s, n)
    \/ Cancel(s)
    \/ Close(s)

OutputNext ==
    \/ DecoderStart
    \/ DecoderAllocate
    \/ DecoderPush
    \/ OutputStep("a")
    \/ PipeShift
    \/ StopPlayback

\* the decoder, the pipe and one output source with its mutex
SpecOutput == InitHist /\ [][OutputNext]_vars

\* what a null filter_instance makes of a chunk it is called with
Garbage(s) == IF filter_instance[s] = NoFilter THEN 0..MaxData ELSE {0}

\* one output that is opened and re-opened with any format on any pipe, with
\* a filter chain that opens or fails to
ReopenStep(s) ==
    \/ OutputTask(s)
    \/ \E audio_format \in Formats : \E pipe_ \in Pipes : \E ok \in BOOLEAN :
          Open(s, audio_format, pipe_, FALSE, FALSE, ok)
    \/ Fill(s)
    \/ \E ok \in BOOLEAN : \E n \in 0..MaxData : \E g \in Garbage(s) :
          FillFilter(s, [PlainChunk(n, ok) EXCEPT !.garbage = g])
    \/ ReadTag(s)
    \/ \E n \in 1..MaxData : ConsumeData(s, n)
    \/ Cancel(s)
    \/ Close(s)

ReopenNext ==
    \/ DecoderStart
    \/ DecoderAllocate
    \/ DecoderPush
    \/ ReopenStep("a")
    \/ PipeShift

\* the decoder, the pipe and one output source with its formats and filters
SpecReopen == Init /\ [][ReopenNext]_vars

\* one output that is driven by any sequence of Fill, ReadTag, Cancel and
\* ConsumeData, where ConsumeData comes after a Fill that returned true, with
\* at most the bytes pending_data has
ConsumeStepOf(s) ==
    \/ OutputTask(s)
    \/ OpenOutput(s)
    \/ Fill(s)
    \/ \E ok \in BOOLEAN : \E n \in 0..MaxBytes : FillFilter(s, PlainChunk(n, ok))
    \/ ReadTag(s)
    \/ /\ fill_ret[s] = "true"
       /\ \E n \in 0..pending_data[s] : ConsumeData(s, n) \/ ConsumeDataNull(s, n)
    \/ Cancel(s)

ConsumeNext ==
    \/ DecoderStart
    \/ DecoderAllocate
    \/ DecoderPush
    \/ ConsumeStepOf("a")
    \/ PipeShift
    \/ StopPlayback

\* the decoder, the pipe and one output source whose pipe.Consume calls are
\* recorded
SpecConsume == InitConsume /\ [][ConsumeNext]_vars

\* the serials a chunk can carry
Serials == 0..IGNORE_REPLAY_GAIN

\* the chunks FilterChunk is called with: any length and serial, with or
\* without a companion of any length, whose serial is 0 or IGNORE; the
\* output filter chain accepts them
FilterInputs ==
    {c \in [length : 0..MaxBytes, replay_gain_serial : Serials, other : BOOLEAN,
            other_length : 0..MaxBytes, other_serial : {0, IGNORE_REPLAY_GAIN},
            filter_ok : {TRUE}, garbage : {0}] :
        ~c.other => (c.other_length = 0 /\ c.other_serial = 0)}

\* one output that is opened once, with any format and with or without the
\* two replay gain filters, and filters chunks of every kind
FilterStep(s) ==
    \/ OutputTask(s)
    \/ /\ ~is_open[s]
       /\ \E audio_format \in Formats : \E rg \in BOOLEAN :
             Open(s, audio_format, ThePipe, rg, rg, TRUE)
    \/ Fill(s)
    \/ \E c \in FilterInputs : FillFilter(s, c)
    \/ OutputFailed(s)
    \/ ReadTag(s)
    \/ pending_data[s] > 0 /\ ConsumeData(s, pending_data[s])

FilterNext ==
    \/ DecoderStart
    \/ DecoderAllocate
    \/ DecoderPush
    \/ FilterStep("a")

\* the decoder, the pipe and one output source that filters chunks with
\* replay gain and companions
SpecFilter == InitHist /\ [][FilterNext]_vars

(***************************************************************************)
(* DecoderControl (src/unnamed/part_000).  The player thread is its        *)
(* client: it calls the methods below with the shared mutex held.  The     *)
(* decoder thread takes the command, moves the state and finishes the      *)
(* command.  A client thread may clear the player's error at any time.     *)
(***************************************************************************)
\* CheckRethrowError calls the player makes in a row
MaxChecks == 2

DecoderStates == {"STOP", "START", "DECODE", "ERROR"}
DecoderCommands == {"START", "STOP", "SEEK"}

\* what a step on the DecoderControl leaves alone
DecoderFrame == UNCHANGED <<controlVars, sourceVars, filterVars>>

\* DecoderControl::IsIdle
IsIdle == dc_state \in {"STOP", "ERROR"}

\* the player thread holds no call open and can take the mutex
DecoderClientReady ==
    /\ dc_pc = "idle"
    /\ mutex = NoThread

\* CheckRethrowError that takes the error out of the object when it raises
DC_CheckRethrowError_Take ==
    /\ dc_command = "NONE"
    /\ dc_raised' = (dc_state = "ERROR")
    /\ dc_state' = IF dc_state = "ERROR" THEN "STOP" ELSE dc_state
    /\ dc_error' = NoError
    /\ UNCHANGED dc_command

\* DecoderControl::CheckRethrowError (a const method): it raises the stored
\* error when the state is ERROR
DC_CheckRethrowError ==
    /\ dc_command = "NONE"
    /\ dc_raised' = (dc_state = "ERROR")
    /\ UNCHANGED <<dc_state, dc_error, dc_command>>

\* ClearError that only empties the error
DC_ClearError_KeepState ==
    /\ dc_error' = NoError
    /\ dc_state' = dc_state

\* DecoderControl::ClearError
DC_ClearError ==
    IF dc_state = "ERROR"
    THEN /\ dc_error' = NoError
         /\ dc_state' = "STOP"
    ELSE UNCHANGED <<dc_error, dc_state>>

\* DecoderControl::SynchronousCommandLocked: the command is written and the
\* caller waits, with the mutex released, in WaitCommandLocked
DC_SynchronousCommandLocked(cmd) ==
    /\ dc_command' = cmd
    /\ dc_pc' = "wait"

\* LockSynchronousCommand that does not clear the error
DC_LockSynchronousCommand_NoClear(cmd) ==
    /\ UNCHANGED <<dc_error, dc_state>>
    /\ DC_SynchronousCommandLocked(cmd)

\* DecoderControl::LockSynchronousCommand
DC_LockSynchronousCommand(cmd) ==
    /\ DC_ClearError
    /\ DC_SynchronousCommandLocked(cmd)

\* DecoderControl::LockAsynchronousCommand
DC_LockAsynchronousCommand(cmd) ==
    /\ dc_command' = cmd
    /\ UNCHANGED <<dc_error, dc_state, dc_pc>>

\* DecoderControl::CommandFinishedLocked
DC_CommandFinishedLocked ==
    /\ dc_command # "NONE"
    /\ dc_command' = "NONE"

\* the player thread looks for a decoder failure; a raised error becomes
\* the player's error and the player pauses
PlayerCheckDecoder ==
    /\ DecoderClientReady
    /\ dc_checks < MaxChecks
    /\ DC_CheckRethrowError
    /\ dc_checks' = dc_checks + 1
    /\ dc_last' = "CheckRethrowError"
    /\ dc_before' = dc_state
    /\ IF dc_raised'
       THEN SetError("DECODER", dc_error) /\ state' = "PAUSE"
       ELSE UNCHANGED <<error_type, error, state>>
    /\ UNCHANGED dc_pc
    /\ UNCHANGED <<mutex, cond, client_cond, command, next_song, seek_time,
                   border_pause, occupied, thread_defined, bit_rate>>
    /\ UNCHANGED <<clientVars, playerVars, sourceVars, filterVars>>

\* the player thread calls ClearError
PlayerClearDecoderError ==
    /\ DecoderClientReady
    /\ DC_ClearError
    /\ dc_last' = "ClearError"
    /\ dc_before' = dc_state
    /\ dc_checks' = 0
    /\ UNCHANGED <<dc_command, dc_pc, dc_raised>>
    /\ DecoderFrame

\* what the player thread may send: START to an idle decoder, STOP and
\* SEEK at any time, each once the previous command is finished
MaySend(cmd) ==
    /\ dc_command = "NONE"
    /\ cmd = "START" => IsIdle

\* the player thread sends a command and waits for it, clearing the error
PlayerSendLockSynchronous(cmd) ==
    /\ DecoderClientReady
    /\ MaySend(cmd)
    /\ DC_LockSynchronousCommand(cmd)
    /\ dc_last' = "LockSynchronousCommand"
    /\ dc_before' = dc_state
    /\ dc_checks' = 0
    /\ UNCHANGED dc_raised
    /\ DecoderFrame

\* the player thread, holding the mutex, sends a command and waits for it
PlayerSendSynchronousLocked(cmd) ==
    /\ DecoderClientReady
    /\ MaySend(cmd)
    /\ DC_SynchronousCommandLocked(cmd)
    /\ dc_last' = "SynchronousCommandLocked"
    /\ dc_before' = dc_state
    /\ dc_checks' = 0
    /\ UNCHANGED <<dc_state, dc_error, dc_raised>>
    /\ DecoderFrame

\* the player thread sends a command and does not wait
PlayerSendAsynchronous(cmd) ==
    /\ DecoderClientReady
    /\ MaySend(cmd)
    /\ DC_LockAsynchronousCommand(cmd)
    /\ dc_last' = "LockAsynchronousCommand"
    /\ dc_before' = dc_state
    /\ dc_checks' = 0
    /\ UNCHANGED dc_raised
    /\ DecoderFrame

\* DecoderControl::WaitCommandLocked: the loop ends once command is NONE
DC_WaitCommandLocked ==
    /\ dc_pc = "wait"
    /\ mutex = NoThread
    /\ dc_command = "NONE"
    /\ dc_pc' = "idle"
    /\ UNCHANGED <<dc_state, dc_command, dc_error, dc_last, dc_before, dc_checks,
                   dc_raised>>
    /\ DecoderFrame

\* what a step of the decoder thread does to the history
ThreadStep ==
    /\ mutex = NoThread
    /\ dc_last' = "thread"
    /\ dc_before' = dc_state
    /\ dc_checks' = 0
    /\ UNCHANGED <<dc_pc, dc_raised>>
    /\ DecoderFrame

\* the decoder thread takes START: the state is START, the old error is
\* freed and the command is finished
DecoderThreadStart ==
    /\ dc_command = "START"
    /\ dc_state' = "START"
    /\ dc_error' = NoError
    /\ DC_CommandFinishedLocked
    /\ ThreadStep

\* DecoderControl::SetReady: the decoder plugin has opened the song
SetReady ==
    /\ dc_state = "START"
    /\ dc_state' = "DECODE"
    /\ UNCHANGED <<dc_command, dc_error>>
    /\ ThreadStep

\* the song could not be opened, or a failure ended the decoding
DecoderThreadFailed ==
    /\ dc_state \in {"START", "DECODE"}
    /\ dc_state' = "ERROR"
    /\ dc_error' = "decoder_failure"
    /\ UNCHANGED dc_command
    /\ ThreadStep

\* the end of the song, with no command pending
DecoderThreadEOF ==
    /\ dc_state = "DECODE"
    /\ dc_command = "NONE"
    /\ dc_state' = "STOP"
    /\ UNCHANGED <<dc_command, dc_error>>
    /\ ThreadStep

\* the decoder thread takes STOP: a running decoder stops, an idle one
\* only finishes the command
DecoderThreadStop ==
    /\ dc_command = "STOP"
    /\ dc_state' = IF IsIdle THEN dc_state ELSE "STOP"
    /\ UNCHANGED dc_error
    /\ DC_CommandFinishedLocked
    /\ ThreadStep

\* the decoder thread takes SEEK: it repositions or reports a seek error,
\* and finishes the command without moving the state
DecoderThreadSeek ==
    /\ dc_command = "SEEK"
    /\ UNCHANGED <<dc_state, dc_error>>
    /\ DC_CommandFinishedLocked
    /\ ThreadStep

PlayerDecoderStep ==
    \/ PlayerCheckDecoder
    \/ PlayerClearDecoderError
    \/ \E cmd \in DecoderCommands : PlayerSendLockSynchronous(cmd)
    \/ \E cmd \in DecoderCommands : PlayerSendSynchronousLocked(cmd)
    \/ \E cmd \in DecoderCommands : PlayerSendAsynchronous(cmd)
    \/ DC_WaitCommandLocked

DecoderThreadStep ==
    \/ DecoderThreadStart
    \/ SetReady
    \/ DecoderThreadFailed
    \/ DecoderThreadEOF
    \/ DecoderThreadStop
    \/ DecoderThreadSeek

DecoderNext ==
    \/ PlayerDecoderStep
    \/ DecoderThreadStep
    \/ LockClearError("main")
    \/ Unlock("main")

\* the DecoderControl with the player thread, the decoder thread and a
\* client that clears the player's error
SpecDecoder == Init /\ [][DecoderNext]_vars

\* DecoderControl::HasFailed, the value it returns
DC_HasFailed == dc_state = "ERROR"

\* the player thread polls the decoder with HasFailed or CheckRethrowError
\* without having waited for its last command.  Both begin with
\* assert(command == DecoderCommand::NONE): where that fails, the build with
\* assertions aborts and the build without them goes on.
PlayerPoll(method) ==
    /\ DecoderClientReady
    /\ dc_checks < MaxChecks
    /\ dc_checks' = dc_checks + 1
    /\ dc_last' = method
    /\ dc_before' = dc_state
    /\ \E aborts \in {FALSE, dc_command # "NONE"} :
          IF aborts
          THEN /\ dc_pc' = "aborted"
               /\ UNCHANGED <<dc_raised, error_type, error, state>>
          ELSE /\ dc_pc' = dc_pc
               /\ dc_raised' = IF method = "CheckRethrowError" THEN DC_HasFailed
                                ELSE dc_raised
               /\ IF dc_raised' /\ method = "CheckRethrowError"
                  THEN SetError("DECODER", dc_error) /\ state' = "PAUSE"
                  ELSE UNCHANGED <<error_type, error, state>>
    /\ UNCHANGED <<dc_state, dc_command, dc_error>>
    /\ UNCHANGED <<mutex, cond, client_cond, command, next_song, seek_time,
                   border_pause, occupied, thread_defined, bit_rate>>
    /\ UNCHANGED <<clientVars, playerVars, sourceVars, filterVars>>

PollNext ==
    \/ DecoderNext
    \/ \E method \in {"HasFailed", "CheckRethrowError"} : PlayerPoll(method)

\* the DecoderControl with a player thread that also polls it after
\* commands it has not waited for
SpecPoll == Init /\ [][PollNext]_vars

(***************************************************************************)
(* The claims.                                                             *)
(***************************************************************************)

\* C1: the command slot is written only by a client entering
\* SynchronousCommand and only while it is NONE; it is reset to NONE only in
\* a step of the player thread (CommandFinished), in which no client moves;
\* whenever it is not NONE a client is inside WaitCommandLocked; and a client
\* leaves WaitCommandLocked, to the place SynchronousCommand returns to, only
\* when the command is NONE again.
C1_HandshakeStep ==
    /\ command' # "NONE" => \E c \in Clients : pc'[c] = "wait"
    /\ (command' # command /\ command' # "NONE") =>
          /\ command = "NONE"
          /\ \E c \in Clients : pc[c] = "sync" /\ pc'[c] = "wait" /\ command' = c_cmd[c]
    /\ (command # "NONE" /\ command' = "NONE") =>
          /\ pc' = pc
          /\ pl_pc \in {"ready", "wait", "seek"}
          /\ pl_pc' \in {"ready", "start", "exiting"}
    /\ \A c \in Clients :
          (pc[c] = "wait" /\ pc'[c] # "wait") => (command = "NONE" /\ pc'[c] = c_ret[c])

C1_Handshake == [][C1_HandshakeStep]_vars

\* the client is back from the SEEK handshake, which the player thread has run
C1_Witness ==
    /\ pc["main"] = "seek_done"
    /\ command = "NONE"
    /\ dc_song = c_given["main"]

\* C2: with one client thread, every entry to SynchronousCommand finds
\* command == NONE.
C2_OneInFlight == \A c \in Clients : pc[c] = "sync" => command = "NONE"

\* Play enters SynchronousCommand for the third time: CANCEL, SEEK, now PAUSE
C2_Witness ==
    /\ pc["main"] = "sync"
    /\ c_op["main"] = "Play"
    /\ c_cmd["main"] = "PAUSE"
    /\ sent["main"] = 2

\* C3: under fair scheduling of the player thread and of the client inside
\* its call, every command is eventually finished and every call returns.
C3_Acknowledged ==
    /\ (command # "NONE") ~> (command = "NONE")
    /\ (pc["main"] # "idle") ~> (pc["main"] = "idle")

\* the client signalled cond while the player thread was not waiting on it
C3_Witness ==
    /\ pc["main"] = "wait"
    /\ command # "NONE"
    /\ pl_pc = "play"
    /\ "main" \in client_cond

\* a step in which a client runs ClearError(): SeekLocked before its SEEK,
\* or LockClearError
ExplicitClear ==
    \E c \in Clients : \/ pc[c] = "seek_set" /\ pc'[c] = "sync"
                       \/ pc[c] = "idle" /\ c_op'[c] = "LockClearError"

\* SeekLocked leaves its test of error_type normally
SeekReturnsNormally(c) ==
    /\ pc[c] = "seek_done"
    /\ pc'[c] \in {"play_tail", "unlock"}

\* SeekLocked leaves its test of error_type with the exception
SeekRethrows(c) ==
    /\ pc[c] = "seek_done"
    /\ pc'[c] = "throw"

\* C6 as stated: LockSeek and Play return normally if and only if error_type
\* was NONE at the moment the SEEK was acknowledged (ack_error), else they
\* rethrow; and a stored error_type does not change until it is explicitly
\* cleared.
C6_OriginalStep ==
    /\ \A c \in Clients :
          /\ SeekReturnsNormally(c) => ack_error = "NONE"
          /\ SeekRethrows(c) => ack_error # "NONE"
    /\ (error_type # "NONE" /\ error_type' # error_type) => ExplicitClear

C6_Original == [][C6_OriginalStep]_vars

\* C6, amended: LockSeek and Play return normally if and only if error_type
\* is NONE when the client reads it with the mutex held again after the SEEK
\* handshake; an error stored at the acknowledgement is always rethrown, and
\* so is one the player thread stores between the acknowledgement and the
\* client's read; the rethrow leaves error_type and error as they are, and a
\* stored error goes back to NONE only by an explicit ClearError.
C6_RethrowStep ==
    /\ \A c \in Clients :
          /\ SeekReturnsNormally(c) => error_type = "NONE" /\ ack_error = "NONE"
          /\ SeekRethrows(c) => /\ error_type # "NONE" /\ error # NoError
                                /\ error_type' = error_type /\ error' = error
          /\ (pc[c] = "throw" /\ pc'[c] # "throw") =>
                /\ error_type' = error_type /\ error' = error
                /\ last'[c].res = "threw"
    /\ (error_type # "NONE" /\ error_type' = "NONE") => ExplicitClear

C6_Rethrow == [][C6_RethrowStep]_vars

\* LockSeek rethrows an output error stored after the SEEK was acknowledged
\* without one
C6_Witness ==
    /\ pc["main"] = "throw"
    /\ c_op["main"] = "LockSeek"
    /\ ack_error = "NONE"
    /\ error_type = "OUTPUT"

\* C7: a SEEK the player thread has not begun to process finds in next_song
\* the song its client gave and in seek_time the position its client gave,
\* also when LockEnqueueSong had left a queued song and a seek_time of zero.
C7_SeekSeesRequest ==
    (command = "SEEK" /\ pl_pc # "seek") =>
        \E c \in Clients : /\ pc[c] = "wait" /\ c_cmd[c] = "SEEK"
                           /\ next_song # NoSong
                           /\ next_song = c_given[c]
                           /\ seek_time = c_time[c]

\* the SEEK of a LockSeek(s, 1) that first had to CANCEL the queued song
C7_Witness ==
    /\ command = "SEEK"
    /\ pl_pc # "seek"
    /\ c_op["main"] = "LockSeek"
    /\ sent["main"] = 2
    /\ seek_time = MaxTime

C9_StopStops ==
    \A c \in Clients : (pc[c] = "post" /\ c_op[c] = "LockStop") => state = "STOP"

\* LockStop is about to return and an error is stored
C9_Witness ==
    /\ pc["main"] = "post"
    /\ c_op["main"] = "LockStop"
    /\ error_type # "NONE"
    /\ dc_song = NoSong

\* the entry rules of LockSetPause and LockPause, and no effect in STOP
PauseEntryRules ==
    \A c \in Clients :
       /\ (pc[c] = "idle" /\ c_op'[c] = "LockSetPause") =>
             /\ (pc'[c] = "sync" /\ c_cmd'[c] = "PAUSE") <=> SetPauseSends(c_arg'[c] = "true")
             /\ pc'[c] \in {"sync", "unlock"}
             /\ state' = state
       /\ (pc[c] = "idle" /\ c_op'[c] = "LockPause") =>
             /\ (pc'[c] = "sync" /\ c_cmd'[c] = "PAUSE") <=> state # "STOP"
             /\ pc'[c] \in {"sync", "unlock"}
             /\ state' = state
       /\ (c_op[c] \in {"LockSetPause", "LockPause"} /\ pc[c] = "unlock") =>
             (sent[c] = 0 => state' = state)

\* C10 as stated: the entry rules; each PAUSE the player thread finishes
\* toggles the state between PLAY and PAUSE; LockSetPause(flag) twice in a
\* row sends at most one command.
C10_OriginalStep ==
    /\ PauseEntryRules
    /\ (command = "PAUSE" /\ command' = "NONE") =>
          \/ state = "PLAY" /\ state' = "PAUSE"
          \/ state = "PAUSE" /\ state' = "PLAY"
    /\ \A c \in Clients :
          (last'[c].op = "LockSetPause" /\ c_op'[c] = "LockSetPause"
             /\ last'[c].arg = c_arg'[c]) => last'[c].sent + sent'[c] <= 1

C10_Original == [][C10_OriginalStep]_vars

\* C10, amended: the entry rules; a PAUSE the player thread finishes toggles
\* the state when the state is then PLAY or PAUSE and leaves STOP as it is;
\* one call of LockSetPause or LockPause sends at most one command (two calls
\* in a row can each send one when the player thread changes the state in
\* between).
C10_PauseStep ==
    /\ PauseEntryRules
    /\ (command = "PAUSE" /\ command' = "NONE") =>
          \/ state = "PLAY" /\ state' = "PAUSE"
          \/ state = "PAUSE" /\ state' = "PLAY"
          \/ state = "STOP" /\ state' = "STOP"
    /\ \A c \in Clients :
          c_op'[c] \in {"LockSetPause", "LockPause"} =>
             /\ sent'[c] <= 1
             /\ command' # "NONE" => command' = "PAUSE"

C10_Pause == [][C10_PauseStep]_vars

\* the second LockSetPause(flag) in a row sends nothing after the first sent
\* the PAUSE
C10_Witness ==
    /\ last["main"].op = "LockSetPause"
    /\ last["main"].sent = 1
    /\ c_op["main"] = "LockSetPause"
    /\ c_arg["main"] = last["main"].arg
    /\ pc["main"] = "unlock"
    /\ sent["main"] = 0

\* C4: every successful Fill that obtains a new chunk obtains the chunk the
\* decoder enqueued right after the one the source obtained before, or the
\* head of the pipe when it is the source's first since Open or Cancel; the
\* chunk is in the pipe and current_chunk is that chunk.
C4_FillStep ==
    \A s \in Sources :
       (src_pc[s] = "filter" /\ src_pc'[s] = "idle" /\ current_chunk'[s] # NoChunk) =>
          /\ delivered'[s] = IF delivered[s] = 0
                             THEN Head(music_pipe).seq
                             ELSE delivered[s] + 1
          /\ delivered'[s] \in PipeSeqs
          /\ current_chunk'[s] = PipeChunkId(delivered'[s])

C4_FillOrder == [][C4_FillStep]_vars

\* one source has obtained the third chunk, in a buffer slot used before,
\* while the other is still at the second
C4_Witness ==
    /\ delivered["a"] = MaxPush
    /\ delivered["b"] = MaxPush - 1
    /\ current_chunk["a"] # NoChunk
    /\ pushed = MaxPush

BorderStep ==
    /\ pl_pc = "play"
    /\ dc_next /\ ~dc_next'
    /\ dc_song' = dc_song /\ dc_song # NoSong

\* the player thread ends playback after the last song
EndStep ==
    /\ pl_pc = "play"
    /\ playing /\ ~playing'

\* C11 as stated: ApplyBorderPause sets PAUSE and returns true if and only
\* if border_pause is set, else leaves the state; and whenever the current
\* song ends with border_pause set, the state is then PAUSE.
C11_OriginalStep ==
    /\ BorderStep => /\ (pl_pc' = "border") <=> border_pause
                     /\ state' = IF border_pause THEN "PAUSE" ELSE state
    /\ (BorderStep \/ EndStep) => (border_pause => state' = "PAUSE")

C11_BorderPauseStep ==
    /\ BorderStep => /\ (pl_pc' = "border") <=> border_pause
                     /\ state' = IF border_pause THEN "PAUSE" ELSE state
    /\ pl_pc = "border" => state = "PAUSE" /\ state' = "PAUSE"
    /\ (state = "PAUSE" /\ state' # "PAUSE") => (command # "NONE" /\ command' = "NONE")
    /\ EndStep => state' = "STOP"

C12_OutputErrorStep ==
    /\ (pl_pc = "play" /\ error_type' = "OUTPUT" /\ error_type # "OUTPUT") =>
          /\ state' = "PAUSE"
          /\ error' = "output_failure"
          /\ command' = command /\ next_song' = next_song
    /\ (error_type = "OUTPUT" /\ state = "PAUSE"
          /\ command = "PAUSE" /\ command' = "NONE") =>
          /\ state' = "PLAY"
          /\ error_type' = "OUTPUT" /\ error' = error

GetStatusHandshake ==
    \A c \in Clients :
       /\ (pc[c] = "idle" /\ c_op'[c] = "LockGetStatus") =>
             /\ occupied => /\ pc'[c] = "status"
                            /\ command' = command
                            /\ c \notin client_cond'
             /\ ~occupied => pc'[c] = "sync" /\ c_cmd'[c] = "REFRESH"
       /\ (c_op[c] = "LockGetStatus" /\ pc[c] = "sync" /\ pc'[c] # "sync") =>
             (sent[c] = 0 /\ sent'[c] = 1 /\ command' = "REFRESH")
       /\ (c_op[c] = "LockGetStatus" /\ pc[c] = "status") =>
             /\ sent[c] = (IF c_cmd[c] = "REFRESH" THEN 1 ELSE 0)
             /\ command = "NONE"

\* LockGetStatus copies the status
GetStatusRead(c) ==
    /\ pc[c] = "status"
    /\ pc'[c] = "unlock"

\* C13 as stated: the handshake rule; the status returned while occupied is
\* the stored state, bit_rate, audio_format, total_time and elapsed_time.
C13_OriginalStep ==
    /\ GetStatusHandshake
    /\ \A c \in Clients :
          (GetStatusRead(c) /\ sent[c] = 0) =>
             c_status'[c] = [state |-> state, bit_rate |-> bit_rate]

C13_Original == [][C13_OriginalStep]_vars

\* C13, amended: the handshake rule; the status returned, with or without a
\* REFRESH, holds the stored state and, when that state is not STOP, the
\* stored bit_rate, audio_format, total_time and elapsed_time; in STOP only
\* the state is set.
C13_GetStatusStep ==
    /\ GetStatusHandshake
    /\ \A c \in Clients :
          GetStatusRead(c) =>
             /\ c_status'[c].state = state
             /\ state # "STOP" => c_status'[c].bit_rate = bit_rate
             /\ state' = state /\ bit_rate' = bit_rate

C13_GetStatus == [][C13_GetStatusStep]_vars

\* LockGetStatus returns during the occupied window, without a command, while
\* the player is stopped
C13_Witness ==
    /\ pc["main"] = "unlock"
    /\ c_op["main"] = "LockGetStatus"
    /\ sent["main"] = 0
    /\ occupied
    /\ c_status["main"].state = "STOP"

(***************************************************************************)
(* DecoderControl: the stored error.                                       *)
(***************************************************************************)
\* the player thread has just called CheckRethrowError
CheckStep == dc_checks' = dc_checks + 1

\* C14 as stated: after the decoder has entered ERROR the first
\* CheckRethrowError raises the stored error, and a second one that follows
\* it with no failure and no other operation in between does not raise.
C14_OriginalStep ==
    /\ (CheckStep /\ dc_checks = 0 /\ dc_state = "ERROR") => dc_raised'
    /\ (CheckStep /\ dc_checks = 1) => ~dc_raised'

C14_Original == [][C14_OriginalStep]_vars

\* C14: CheckRethrowError raises the stored error every time it is called in
\* state ERROR, the second of two calls in a row as well as the first, and
\* raises nothing in any other state; it changes neither the state nor the
\* stored error nor the command.
C14_RethrowStep ==
    CheckStep =>
        /\ dc_raised' = (dc_state = "ERROR")
        /\ dc_state' = dc_state
        /\ dc_error' = dc_error
        /\ dc_command' = dc_command
        /\ dc_state = "ERROR" => dc_error # NoError

C14_Rethrow == [][C14_RethrowStep]_vars

\* the second of two calls in a row has raised the error
C14_Witness ==
    /\ dc_checks = 2
    /\ dc_raised
    /\ dc_state = "ERROR"
    /\ error_type = "DECODER"

\* the last call on the DecoderControl is ClearError: the step is that
\* call, or a step of a client that leaves the DecoderControl alone
ClearStep == dc_last' = "ClearError"

\* C15: ClearError called in state ERROR sets the state to STOP and empties
\* the stored error; called in state STOP, START or DECODE it changes
\* neither the state nor the error; in no state does it change the command.
C15_ClearStep ==
    ClearStep =>
        /\ dc_command' = dc_command
        /\ dc_state = "ERROR" => (dc_state' = "STOP" /\ dc_error' = NoError)
        /\ dc_state # "ERROR" => (dc_state' = dc_state /\ dc_error' = dc_error)

C15_ClearError == [][C15_ClearStep]_vars

\* ClearError was called in state ERROR while a command was pending
C15_Witness ==
    /\ dc_last = "ClearError"
    /\ dc_before = "ERROR"
    /\ dc_state = "STOP"
    /\ dc_error = NoError
    /\ dc_command = "STOP"

\* the client enters LockClearError, and leaves it
ClearErrorEntry == pc["main"] = "idle" /\ c_op'["main"] = "LockClearError"
ClearErrorExit == c_op["main"] = "LockClearError" /\ pc'["main"] = "idle"

\* C16 as stated: LockClearError resets the player's error, leaves the
\* player's state, command and next_song unchanged and, if the decoder is in
\* state ERROR, leaves the decoder in state STOP.
C16_OriginalStep ==
    /\ ClearErrorEntry =>
        /\ error_type' = "NONE" /\ error' = NoError
        /\ state' = state /\ command' = command /\ next_song' = next_song
    /\ (ClearErrorExit /\ dc_state = "ERROR") => dc_state' = "STOP"

C16_Original == [][C16_OriginalStep]_vars

\* C16: LockClearError resets the player's error (error_type NONE, stored
\* error empty) and leaves the player's state, command and next_song
\* unchanged; it leaves the DecoderControl alone, so a decoder in state ERROR
\* is still in state ERROR, with its error stored, when the call returns.
C16_ClearErrorStep ==
    /\ ClearErrorEntry =>
        /\ error_type' = "NONE" /\ error' = NoError
        /\ state' = state /\ command' = command /\ next_song' = next_song
    /\ (ClearErrorEntry \/ ClearErrorExit) =>
        /\ dc_state' = dc_state /\ dc_error' = dc_error /\ dc_command' = dc_command
    /\ ClearErrorExit =>
        /\ error_type' = "NONE" /\ error' = NoError
        /\ state' = state /\ command' = command /\ next_song' = next_song

C16_ClearError == [][C16_ClearErrorStep]_vars

\* the call has cleared a decoder error of the paused player, and the
\* decoder is in state ERROR
C16_Witness ==
    /\ pc["main"] = "unlock"
    /\ c_op["main"] = "LockClearError"
    /\ error_type = "NONE"
    /\ state = "PAUSE"
    /\ dc_raised
    /\ dc_state = "ERROR"
    /\ dc_error # NoError

\* the player thread has just sent a command through the named method
SendStep(method) ==
    /\ dc_last' = method
    /\ dc_command = "NONE"
    /\ dc_command' # "NONE"

\* the decoder has just left state ERROR
LeavesError == dc_state = "ERROR" /\ dc_state' # "ERROR"

\* the step is an explicit ClearError, or belongs to a START command: the
\* player thread sends it, or the decoder thread takes it
ClearOrStart ==
    \/ dc_last' = "ClearError"
    \/ dc_command' = "START"
    \/ dc_command = "START"

\* C17 as stated: once the state is ERROR it stays ERROR until the next START
\* command is issued or ClearError is called explicitly; sending STOP or
\* SEEK, synchronously or asynchronously, does not move the decoder out of
\* ERROR.
C17_OriginalStep == LeavesError => ClearOrStart

C17_ErrorStaysStep ==
    /\ LeavesError =>
        \/ dc_last' = "ClearError"
        \/ dc_last' = "LockSynchronousCommand"
        \/ dc_command = "START" /\ dc_state' = "START"
    /\ (SendStep("LockSynchronousCommand") /\ dc_state = "ERROR") =>
        (dc_state' = "STOP" /\ dc_error' = NoError)
    /\ ((SendStep("SynchronousCommandLocked") \/ SendStep("LockAsynchronousCommand"))
            /\ dc_state = "ERROR") =>
        (dc_state' = "ERROR" /\ dc_error' = dc_error)

C18_ErrorOnlyAfterStartStep ==
    /\ (dc_state # "ERROR" /\ dc_state' = "ERROR") => dc_state = "START"
    /\ (dc_state # "DECODE" /\ dc_state' = "DECODE") =>
        (dc_state = "START" /\ dc_last' = "thread")

C18_ErrorOnlyAfterStart == [][C18_ErrorOnlyAfterStartStep]_vars

(***************************************************************************)
(* AudioOutputSource::Fill.                                                *)
(***************************************************************************)
\* the chunk the source holds has neither a pending tag nor pending data
Drained(s) ==
    /\ current_chunk[s] # NoChunk
    /\ ~pending_tag[s]
    /\ pending_data[s] = 0

\* a call of Fill has gone from its entry to its return or to FilterChunk;
\* a call that returns true for a chunk it already held changes nothing
FillStep(s) ==
    /\ src_pc[s] = "idle"
    /\ fill_ret'[s] # fill_ret[s]
    /\ fill_ret'[s] # "reported"

\* Fill has taken a chunk from the pipe
FillTakes(s) == src_pc[s] = "idle" /\ src_pc'[s] = "filter"

\* FilterChunk has returned and Fill returns
FillFiltered(s) == src_pc[s] = "filter" /\ fill_ret'[s] = "true"

\* C19: Fill takes a chunk from the pipe only when the source holds none, a
\* drained chunk having been released first; it releases a held chunk only
\* when the chunk has neither a pending tag nor pending data; it returns
\* false exactly when the source then holds no chunk because the pipe had no
\* next chunk for it, and true otherwise, holding one chunk; whenever it
\* takes a chunk, the chunk it took before has been consumed, unless it is
\* handed the same chunk again.
C19_FillStepRule ==
    \A s \in Sources :
        /\ FillTakes(s) => (current_chunk[s] = NoChunk \/ Drained(s))
        /\ (FillStep(s) /\ current_chunk[s] # NoChunk
                /\ (current_chunk'[s] = NoChunk \/ FillTakes(s))) => Drained(s)
        /\ FillStep(s) =>
             (fill_ret'[s] = "false" <=>
                /\ current_chunk'[s] = NoChunk
                /\ PipeGet(s, sp_consumed[s] \/ Drained(s)) = 0)
        /\ (FillStep(s) /\ fill_ret'[s] = "true") =>
             (current_chunk'[s] = current_chunk[s] /\ current_chunk[s] # NoChunk)
        /\ FillFiltered(s) =>
             (current_chunk'[s] = current_chunk[s] /\ current_chunk[s] # NoChunk)
        /\ FillTakes(s) =>
             \/ sp_chunk[s] = 0
             \/ sp_consumed[s] \/ Drained(s)
             \/ sp_chunk'[s] = sp_chunk[s]

C19_Fill == [][C19_FillStepRule]_vars

\* one source has released its drained chunk and got false from an empty
\* pipe; the other holds the second chunk it took, data pending
C19_Witness ==
    \E s, t \in Sources :
        /\ fill_ret[s] = "false"
        /\ sp_chunk[s] >= 1 /\ sp_consumed[s]
        /\ current_chunk[s] = NoChunk
        /\ fill_ret[t] = "true"
        /\ sp_chunk[t] >= 2
        /\ current_chunk[t] # NoChunk
        /\ pending_data[t] > 0

\* C20: if FilterChunk fails inside Fill, the failure leaves Fill and the
\* source holds no current chunk afterwards: Fill leaves FilterChunk without
\* a chunk exactly when the failure is propagated, and the next Fill does
\* not return true for a chunk kept from the failed call; the failure is
\* stored in the player as error_type OUTPUT with state PAUSE.
C20_FilterFailureStep ==
    \A s \in Sources :
        /\ (src_pc[s] = "filter" /\ src_pc'[s] = "idle") =>
             (fill_ret'[s] = "threw" <=> current_chunk'[s] = NoChunk)
        /\ (src_pc[s] = "filter" /\ fill_ret'[s] = "threw") =>
             (src_pc'[s] = "idle" /\ current_chunk[s] # NoChunk)
        /\ (fill_ret[s] \in {"threw", "reported"} /\ FillStep(s)) =>
             fill_ret'[s] # "true"
        /\ (fill_ret[s] = "threw" /\ fill_ret'[s] = "reported") =>
             (error_type' = "OUTPUT" /\ error' # NoError /\ state' = "PAUSE")

C20_FilterFailure == [][C20_FilterFailureStep]_vars

\* the filter has failed on a chunk, the source holds none and the player
\* has stored the failure
C20_Witness ==
    \E s \in Sources :
        /\ fill_ret[s] = "reported"
        /\ current_chunk[s] = NoChunk
        /\ sp_chunk[s] >= 1 /\ ~sp_consumed[s]
        /\ error_type = "OUTPUT"
        /\ state = "PAUSE"

(***************************************************************************)
(* PlayerControl: the stored error.                                        *)
(***************************************************************************)
\* C29: error_type is NONE exactly when the stored error is empty, in every
\* state and so in every state seen with the mutex held: SetError stores a
\* non-empty error with a type other than NONE, ClearError resets both, and
\* no step changes one of the two without the other.
C29_ErrorPair == (error_type = "NONE") <=> (error = NoError)

\* a client inside LockPause holds the mutex while an output error is stored
C29_Witness ==
    /\ mutex = "main"
    /\ c_op["main"] = "LockPause"
    /\ error_type = "OUTPUT"
    /\ error = "output_failure"

(***************************************************************************)
(* PlayerControl::Kill.                                                    *)
(***************************************************************************)
\* Kill returns
KillReturns == c_op["main"] = "Kill" /\ pc'["main"] = "idle"

\* C26: Kill sends EXIT, once, and returns only after the player thread has
\* finished EXIT and has ended; under fair scheduling a Kill that was
\* started returns; after Kill has returned the player thread takes no
\* further step and command is NONE.
C26_Kill ==
    /\ [][KillReturns =>
            /\ sent["main"] = 1 /\ c_cmd["main"] = "EXIT"
            /\ command = "NONE"
            /\ pl_pc = "exited"]_vars
    /\ [](~thread_defined => (command = "NONE" /\ pl_pc = "exited"))
    /\ [][~thread_defined => playerVars' = playerVars]_vars
    /\ (c_op["main"] = "Kill") ~> (~thread_defined /\ pc["main"] = "idle")

\* Kill has returned
C26_Witness ==
    /\ ~thread_defined
    /\ pc["main"] = "idle"
    /\ pl_pc = "exited"
    /\ command = "NONE"

(***************************************************************************)
(* AudioOutputSource: ConsumeData, Open, FilterChunk and the mutex of Fill *)
(***************************************************************************)
\* ConsumeData has moved pending_data forward
ConsumeStep(s) == skipped'[s] > skipped[s]

\* C21: ConsumeData(n), with a chunk held and 0 < n <= size of pending_data,
\* removes exactly n bytes from the front of pending_data; when that leaves
\* pending_data empty the chunk is handed to pipe.Consume and current_chunk
\* becomes none, otherwise the chunk stays held and neither it nor the
\* pipe position is touched.
C21_ConsumeData ==
    [][\A s \in Sources : ConsumeStep(s) =>
          LET n == skipped'[s] - skipped[s]
          IN  /\ current_chunk[s] # NoChunk
              /\ n <= pending_data[s]
              /\ pending_data'[s] = pending_data[s] - n
              /\ sp_chunk'[s] = sp_chunk[s]
              /\ IF pending_data'[s] = 0
                 THEN /\ current_chunk'[s] = NoChunk
                      /\ ~sp_consumed[s] /\ sp_consumed'[s]
                 ELSE /\ current_chunk'[s] = current_chunk[s]
                      /\ sp_consumed'[s] = sp_consumed[s]]_vars

\* of a buffer of two bytes one has been consumed and the chunk is still
\* held
C21_Witness ==
    /\ skipped["a"] = 1
    /\ pending_data["a"] = 1
    /\ current_chunk["a"] # NoChunk
    /\ ~sp_consumed["a"]

\* C28: FilterChunk runs only while the output thread has released the
\* mutex given to Fill; whenever Fill is not inside FilterChunk, and so
\* whenever it returns or lets an exception out, the output thread holds the
\* mutex; Fill leaves FilterChunk only by taking the free mutex, and the
\* reset of current_chunk on the error path comes with the mutex held.
C28_Locking ==
    /\ [](\A s \in Sources :
            /\ src_pc[s] = "filter" => out_mutex[s] # "output"
            /\ src_pc[s] = "idle" => out_mutex[s] = "output")
    /\ [][\A s \in Sources :
            /\ FillTakes(s) => (out_mutex[s] = "output" /\ out_mutex'[s] = NoThread)
            /\ (src_pc[s] = "filter" /\ src_pc'[s] = "idle") =>
                  (out_mutex[s] = NoThread /\ out_mutex'[s] = "output")
            /\ (src_pc[s] = "filter" /\ fill_ret'[s] = "threw") =>
                  (current_chunk'[s] = NoChunk /\ out_mutex'[s] = "output")]_vars

\* another thread holds the mutex while FilterChunk runs
C28_Witness ==
    /\ src_pc["a"] = "filter"
    /\ current_chunk["a"] # NoChunk
    /\ out_mutex["a"] = "other"

\* a call of Open that changes anything
OpenStep(s) ==
    /\ src_pc[s] = "idle"
    /\ ~(is_open[s] /\ ~is_open'[s])
    /\ <<open_calls[s], is_open[s]>>' # <<open_calls[s], is_open[s]>>

\* and that returns
OpenReturns(s) == OpenStep(s) /\ "threw" \notin open_calls'[s].calls

\* C22: after an Open(format, pipe) that returns, in_audio_format is the
\* format and there is a filter instance, opened for that format.  The
\* filters are rebuilt (the old ones, if any, closed) exactly when the source
\* had none or the format differs from in_audio_format, and are left as
\* they were otherwise.  The pipe consumer is initialised exactly when the
\* source was not open or the pipe is not the one it is bound to.
C22_Open ==
    [][\A s \in Sources : OpenReturns(s) =>
          LET o == open_calls'[s]
              rebuild == \/ filter_instance[s] = NoFilter
                         \/ o.audio_format # in_audio_format[s]
              init == ~is_open[s] \/ o.pipe # sp_pipe[s]
          IN  /\ is_open'[s]
              /\ in_audio_format'[s] = o.audio_format
              /\ filter_instance'[s] = o.audio_format
              /\ ("OpenFilter" \in o.calls) <=> rebuild
              /\ ("CloseFilter" \in o.calls) <=>
                    (rebuild /\ filter_instance[s] # NoFilter)
              /\ ~rebuild =>
                    /\ filter_instance'[s] = filter_instance[s]
                    /\ replay_gain_filter_instance'[s] = replay_gain_filter_instance[s]
                    /\ other_replay_gain_filter_instance'[s] =
                          other_replay_gain_filter_instance[s]
                    /\ replay_gain_serial'[s] = replay_gain_serial[s]
                    /\ other_replay_gain_serial'[s] = other_replay_gain_serial[s]
              /\ ("Init" \in o.calls) <=> init
              /\ sp_pipe'[s] = o.pipe
              /\ IF init
                 THEN sp_chunk'[s] = 0 /\ ~sp_consumed'[s]
                 ELSE sp_chunk'[s] = sp_chunk[s] /\ sp_consumed'[s] = sp_consumed[s]]_vars

\* an open source that holds a chunk has been opened again with another
\* format on the same pipe: its filters were rebuilt and its position kept
C22_Witness ==
    /\ open_calls["a"].calls = {"CloseFilter", "OpenFilter"}
    /\ in_audio_format["a"] = "dsd64:2"
    /\ filter_instance["a"] = "dsd64:2"
    /\ sp_pipe["a"] = ThePipe
    /\ sp_chunk["a"] # 0
    /\ current_chunk["a"] # NoChunk

\* C30: in every reachable state a source with a valid in_audio_format (an
\* open source) has a filter_instance, whatever Open, Close, Cancel and Fill
\* were called, and also when an Open with another format has closed the
\* old filter and OpenFilter has then failed.
C30_OpenHasFilter ==
    \A s \in Sources :
        (is_open[s] /\ in_audio_format[s] # NoFormat) => filter_instance[s] # NoFilter

(***************************************************************************)
(* FilterChunk and GetChunkData, on the chunks of SpecFilter.              *)
(***************************************************************************)
\* FilterChunk has run and Fill has left it
FilterRan(s) == src_pc[s] = "filter" /\ src_pc'[s] = "idle" /\ fc'[s].ran

Min(a, b) == IF a < b THEN a ELSE b

\* the chunk FilterChunk ran on has the IGNORE serial and data, and its
\* replay gain filter is installed
IgnoreChunk(s) ==
    /\ fc'[s].chunk.replay_gain_serial = IGNORE_REPLAY_GAIN
    /\ fc'[s].chunk.length > 0
    /\ replay_gain_filter_instance[s].open

\* the same for the companion, when FilterChunk gets to it
IgnoreCompanion(s) ==
    /\ fc'[s].chunk.other
    /\ fc'[s].chunk.length > 0
    /\ fc'[s].chunk.other_serial = IGNORE_REPLAY_GAIN
    /\ fc'[s].chunk.other_length > 0
    /\ other_replay_gain_filter_instance[s].open

\* the filter and the serial stored for it are left as they were
ReplayGainUntouched(s) ==
    /\ replay_gain_filter_instance'[s] = replay_gain_filter_instance[s]
    /\ replay_gain_serial'[s] = replay_gain_serial[s]

OtherReplayGainUntouched(s) ==
    /\ other_replay_gain_filter_instance'[s] = other_replay_gain_filter_instance[s]
    /\ other_replay_gain_serial'[s] = other_replay_gain_serial[s]

C24_Original ==
    [][\A s \in Sources : (FilterRan(s) /\ fc'[s].mixed) =>
          fc'[s].chain_len =
             Min(fc'[s].chunk.length, fc'[s].chunk.other_length)]_vars

\* C24: pcm_mix mixes min(len, other_len) bytes of the chunk into the
\* companion's data, and the buffer given to the output filter chain is the
\* companion's buffer with its length other_len: min(len, other_len) when
\* len >= other_len, and longer than that, with the rest of the companion
\* unmixed, when len < other_len.
C24_MixedLength ==
    [][\A s \in Sources : (FilterRan(s) /\ fc'[s].mixed) =>
          LET len == fc'[s].chunk.length
              other_len == fc'[s].chunk.other_length
          IN  /\ fc'[s].mixed_len = Min(len, other_len)
              /\ fc'[s].chain_len = other_len
              /\ len >= other_len => fc'[s].chain_len = Min(len, other_len)
              /\ len < other_len => fc'[s].chain_len > Min(len, other_len)
              /\ fc'[s].chain
              /\ pending_data'[s] = other_len]_vars

\* a chunk of one byte was mixed into a companion of two, and two bytes went
\* to the output filter chain
C24_Witness ==
    /\ fc["a"].ran
    /\ fc["a"].mixed
    /\ fc["a"].chunk.length = 1
    /\ fc["a"].chunk.other_length = 2
    /\ fc["a"].mixed_len = 1
    /\ fc["a"].chain_len = 2
    /\ pending_data["a"] = 2

\* FilterChunk gets to pcm_mix, which cannot mix the format
MixFails(s) ==
    /\ fc'[s].chunk.other
    /\ fc'[s].chunk.length > 0
    /\ fc'[s].chunk.other_length > 0
    /\ ~Mixable(in_audio_format[s])

\* the last FilterChunk ended at a pcm_mix that failed
MixFailed(s) ==
    /\ fc[s].ran
    /\ fc[s].chunk.other
    /\ fc[s].chunk.length > 0
    /\ fc[s].chunk.other_length > 0
    /\ ~Mixable(in_audio_format[s])

\* C25 as stated: when pcm_mix reports failure the cross-fade is dropped and
\* playback goes on: Fill returns the chunk's data, no error reaches its
\* caller, error_type stays NONE and the state is not forced to PAUSE.
C25_Original ==
    [][\A s \in Sources :
          /\ (FilterRan(s) /\ MixFails(s)) =>
                /\ ~fc'[s].threw
                /\ fill_ret'[s] = "true"
                /\ current_chunk'[s] = current_chunk[s]
          /\ MixFailed(s) => (error_type' = "NONE" /\ state' # "PAUSE")]_vars

\* C25: when pcm_mix reports failure FilterChunk throws a runtime error
\* before the output filter chain; Fill drops the chunk and lets the error
\* out to its caller; stored as the failure of the output it sets
\* error_type to OUTPUT and the state to PAUSE.
C25_MixFailure ==
    [][\A s \in Sources :
          /\ (FilterRan(s) /\ MixFails(s)) =>
                /\ fc'[s].threw
                /\ ~fc'[s].mixed /\ ~fc'[s].chain
                /\ fill_ret'[s] = "threw"
                /\ current_chunk[s] # NoChunk /\ current_chunk'[s] = NoChunk
                /\ pending_data'[s] = pending_data[s]
          /\ (MixFailed(s) /\ fill_ret[s] = "threw" /\ fill_ret'[s] = "reported") =>
                (error_type' = "OUTPUT" /\ state' = "PAUSE")]_vars

\* a chunk with a companion could not be mixed in the DSD format, and the
\* player has stored the failure of the output
C25_Witness ==
    /\ fc["a"].ran
    /\ fc["a"].threw
    /\ fc["a"].chunk.other
    /\ in_audio_format["a"] = "dsd64:2"
    /\ current_chunk["a"] = NoChunk
    /\ fill_ret["a"] = "reported"
    /\ error_type = "OUTPUT"
    /\ state = "PAUSE"

\* C27: every buffer with data that FilterChunk returns, for a chunk with or
\* without a companion, has gone through the output filter chain.
C27_AlwaysChained ==
    [][\A s \in Sources :
          (FilterRan(s) /\ ~fc'[s].threw /\ fc'[s].size > 0) => fc'[s].chain]_vars

\* C31: over any sequence of Fill, ConsumeData (each after a Fill that
\* returned true, with n <= size of pending_data), ReadTag and Cancel, every
\* chunk a source obtained from pipe.Get is passed to pipe.Consume at most
\* once, and pipe.Consume is never called while current_chunk is none.
C31_Original ==
    \A s \in Sources : ~consumes[s].twice /\ ~consumes[s].none

\* C31, amended: the same, over the sequences in which every ConsumeData is
\* called while the source holds a chunk, that is with no Cancel and no
\* ConsumeData that emptied pending_data since the Fill that returned true.
C31_ConsumeOnce ==
    \A s \in Sources :
       ~consumes[s].misuse => (~consumes[s].twice /\ ~consumes[s].none)

\* after a chunk was dropped, by Cancel or by a filter that failed, the source
\* has consumed a chunk it obtained later, with every ConsumeData called with a
\* chunk held
C31_Witness ==
    /\ ~consumes["a"].misuse
    /\ consumes["a"].calls = 1
    /\ dropped
    /\ current_chunk["a"] = NoChunk
    /\ sp_consumed["a"]
    /\ pending_data["a"] = 0
    /\ fill_ret["a"] = "true"

C33_Serialised ==
    [][\A c \in Clients :
          (pc[c] = "sync" /\ pc'[c] = "wait") => command = "NONE"]_vars

\* the client is inside the SEEK handshake of SeekLocked, from the entry of
\* SynchronousCommand(SEEK) to its test of error_type
InSeek(c) == c_cmd[c] = "SEEK" /\ pc[c] \in {"sync", "wait", "seek_done"}

\* C34: SeekLocked discards any error stored before the call: it clears
\* error_type and the stored error before it issues SEEK, so no error is
\* stored when the SEEK is issued; from there to the client's test after the
\* handshake only the player thread stores an error, and nothing clears one;
\* LockSeek and Play throw only what is stored at that test, so never the
\* error that was stored before the call.
C34_DiscardStep ==
    \A c \in Clients :
       /\ (pc[c] = "seek_set" /\ pc'[c] # "seek_set") =>
             /\ error_type' = "NONE" /\ error' = NoError
             /\ command = "NONE" /\ command' = "NONE"
             /\ pc'[c] = "sync" /\ c_cmd'[c] = "SEEK"
       /\ (InSeek(c) /\ pc[c] = "sync") => (error_type = "NONE" /\ error = NoError)
       /\ (InSeek(c) /\ (error' # error \/ error_type' # error_type)) =>
             /\ error' # NoError /\ error_type' # "NONE"
             /\ pc' = pc /\ mutex # c
             /\ pl_pc' # pl_pc
       /\ SeekRethrows(c) => (error # NoError /\ error_type # "NONE")
       /\ (pc[c] = "throw" /\ pc'[c] # "throw") =>
             (c_op[c] \in {"LockSeek", "Play"} /\ error' = error /\ error # NoError)

C34_Discard == [][C34_DiscardStep]_vars

\* the call before threw, which left its error stored; this Play has cleared
\* it, and throws the decoder error the player thread stored during its SEEK
C34_Witness ==
    /\ pc["main"] = "throw"
    /\ c_op["main"] = "Play"
    /\ last["main"].op = "LockSeek"
    /\ last["main"].res = "threw"
    /\ error_type = "DECODER"
    /\ ack_error = "DECODER"

\* the client enters SynchronousCommand(PAUSE)
SendsPause(c) == pc[c] # "sync" /\ pc'[c] = "sync" /\ c_cmd'[c] = "PAUSE"

\* C35: Play(song) issues PAUSE after its SEEK if and only if the SEEK
\* completed without error and the state it then reads, in the same hold of
\* the mutex, is PAUSE; when the SEEK raised an error the exception leaves
\* Play and no PAUSE is sent; the client holds the mutex during the whole
\* call except while it is inside the wait on client_cond.
C35_Play ==
    /\ [](\A c \in Clients :
            c_op[c] = "Play" =>
               /\ (mutex = c) <=> (pc[c] # "wait")
               /\ pc[c] = "play_tail" => error_type = "NONE"
               /\ pc[c] = "throw" => (c_cmd[c] = "SEEK" /\ error_type # "NONE"))
    /\ [][\A c \in Clients :
            c_op[c] = "Play" =>
               /\ (pc[c] = "seek_done" /\ pc'[c] # "seek_done") =>
                     /\ pc'[c] = (IF error_type = "NONE" THEN "play_tail" ELSE "throw")
                     /\ state' = state /\ mutex' = c
               /\ (pc[c] = "play_tail" /\ pc'[c] # "play_tail") =>
                     /\ SendsPause(c) <=> state = "PAUSE"
                     /\ ~SendsPause(c) => pc'[c] = "unlock"
                     /\ mutex' = c
               /\ SendsPause(c) => (pc[c] = "play_tail" /\ sent[c] \in {1, 2})
               /\ (pc[c] = "throw" /\ pc'[c] # "throw") =>
                     (pc'[c] = "idle" /\ sent[c] \in {1, 2} /\ mutex' = NoThread)]_vars

\* Play has sent CANCEL, SEEK and PAUSE, and the PAUSE has unpaused the player
C35_Witness ==
    /\ pc["main"] = "unlock"
    /\ c_op["main"] = "Play"
    /\ c_cmd["main"] = "PAUSE"
    /\ sent["main"] = 3
    /\ state = "PLAY"

====
